---------------------------- MODULE Spec2Model ----------------------------
(***************************************************************************)
(* A model of the HIR -> MIR lowering of mmcc (build_mir.rs): the          *)
(* generation table of the Translator, the typing-context chain and block  *)
(* list of the Cfg, and the BuildMir cursor with its lowering functions.   *)
(* The HIR being lowered is an input: it is drawn construct by construct.  *)
(***************************************************************************)
EXTENDS Integers, Sequences, FiniteSets, TLC

(* ------------------------------------------------------------------ *)
(* Bounds of the model                                                 *)
(* ------------------------------------------------------------------ *)
\* generation identifiers handed out by type inference are 0 .. MaxGen
MaxGen == 3
\* number of Translator calls made in the Translator-only specification
MaxCalls == 4
\* number of statements and ifs lowered in one procedure body
MaxStmts == 3
\* number of ifs lowered in one procedure body
MaxIfs == 2
\* number of items of a compilation unit
MaxItems == 3
\* number of let statements in the body of a procedure item
MaxLets == 1
\* nesting depth of ifs
MaxDepth == 2
\* largest number of return values of the entry procedure
MaxReturns == 2
\* an if may name as its generation a fresh one or one of 1 .. MaxIfGen
MaxIfGen == 1
\* number of loops, ifs, labelled blocks, labels and calls lowered in one
\* procedure body of the loop and arity specifications
MaxLoopStmts == 2

\* the source variables the Translator-only specification resolves
TrHVars == {"x", "y"}

\* GenId::ROOT, CtxId::ROOT, BlockId::ENTRY
ROOT == 0
CtxROOT == 0
ENTRY == 0

GenIds == 0 .. MaxGen

(* ------------------------------------------------------------------ *)
(* Finite maps (HashMap)                                               *)
(* ------------------------------------------------------------------ *)
EmptyMap == << >>
Has(m, k) == k \in DOMAIN m
Put(m, k, x) == [y \in (DOMAIN m) \cup {k} |-> IF y = k THEN x ELSE m[y]]

\* the value x under the name the operator F gives it: F(x)
Bind(x, F(_)) == F(x)

(* ------------------------------------------------------------------ *)
(* Translator: the generation table                                    *)
(* ------------------------------------------------------------------ *)
VARIABLES
  bm,       \* the BuildMir under construction (tr, cfg, cursor, ...)
  last,     \* the last Translator call made and what it returned
  ncalls,   \* number of Translator calls made (Translator-only specification)
  stack,    \* the expr_if calls in progress, innermost last
  status,   \* "new": built by BuildMir::new; "body": lowering an item's body;
            \* "done": build_item returned; "aborted": lowering panicked
  scope,    \* the source variables bound at the point of the HIR being lowered
  used,     \* the source variables bound anywhere in the HIR lowered so far
  unit      \* the compilation unit: the Initializer threaded through build_item,
            \* the number of items built, and the identifiers each item allocated

vars == <<bm, last, ncalls, stack, status, scope, used, unit>>
lowering == <<stack, status, scope, used, unit>>

GenMap(dominator, value) == [dominator |-> dominator, value |-> value, cache |-> EmptyMap]

\* VarId::fresh via Translator::fresh_var: hands out next_var and advances it
fresh_var(t) == [t |-> [t EXCEPT !.next_var = @ + 1], val |-> t.next_var]

\* Translator::locate followed by push: located.entry(root).or_default().push(val)
locate_push(t, root, val) ==
  [t EXCEPT !.located = Put(@, root, (IF Has(@, root) THEN @[root] ELSE << >>) \o <<val>>)]

\* tr_var that climbs to the root generation instead of the dominator
RECURSIVE tr_var_skip_dominator(_, _, _)
tr_var_skip_dominator(t, v, gen_) ==
  LET gm == t.gen_vars[gen_] IN
  IF Has(gm.cache, v) THEN [t |-> t, val |-> gm.cache[v]]
  ELSE
    Bind(IF Has(gm.value, v) THEN [t |-> t, val |-> gm.value[v]]
         ELSE IF gen_ = ROOT THEN fresh_var(t)
         ELSE tr_var_skip_dominator(t, v, ROOT), LAMBDA r :
    Bind([r.t EXCEPT !.gen_vars[gen_].cache = Put(@, v, r.val)], LAMBDA t1 :
      [t   |-> IF Has(t1.locations, v)
               THEN locate_push(t1, t1.locations[v], r.val)
               ELSE [t1 EXCEPT !.locations = Put(@, v, r.val)],
       val |-> r.val]))

\* tr_var without the cache lookup
RECURSIVE tr_var_no_cache(_, _, _)
tr_var_no_cache(t, v, gen_) ==
  LET gm == t.gen_vars[gen_] IN
    Bind(IF Has(gm.value, v) THEN [t |-> t, val |-> gm.value[v]]
         ELSE IF gen_ = ROOT THEN fresh_var(t)
         ELSE tr_var_no_cache(t, v, gm.dominator), LAMBDA r :
    Bind([r.t EXCEPT !.gen_vars[gen_].cache = Put(@, v, r.val)], LAMBDA t1 :
      [t   |-> IF Has(t1.locations, v)
               THEN locate_push(t1, t1.locations[v], r.val)
               ELSE [t1 EXCEPT !.locations = Put(@, v, r.val)],
       val |-> r.val]))

\* Translator::tr_var(v, gen_): resolve source variable v in generation gen_
RECURSIVE tr_var(_, _, _)
tr_var(t, v, gen_) ==
  LET gm == t.gen_vars[gen_] IN
  IF Has(gm.cache, v) THEN [t |-> t, val |-> gm.cache[v]]
  ELSE
    Bind(IF Has(gm.value, v) THEN [t |-> t, val |-> gm.value[v]]
         ELSE IF gen_ = ROOT THEN fresh_var(t)
         ELSE tr_var(t, v, gm.dominator), LAMBDA r :
    Bind([r.t EXCEPT !.gen_vars[gen_].cache = Put(@, v, r.val)], LAMBDA t1 :
      [t   |-> IF Has(t1.locations, v)
               THEN locate_push(t1, t1.locations[v], r.val)
               ELSE [t1 EXCEPT !.locations = Put(@, v, r.val)],
       val |-> r.val]))

\* Translator::location(var)
location(t, v) ==
  IF Has(t.locations, v) THEN [t |-> t, val |-> t.locations[v]]
  ELSE Bind(fresh_var(t), LAMBDA f :
         [t |-> [f.t EXCEPT !.locations = Put(@, v, f.val)], val |-> f.val])

\* Translator::add_gen: the assert fails (panic) when gen_ is already present
add_gen_panics(t, gen_) == Has(t.gen_vars, gen_)
add_gen(t, dominator, gen_, value) ==
  [t EXCEPT !.gen_vars = Put(@, gen_, GenMap(dominator, value))]

\* a try_add_gen that inserts whether or not gen_ is vacant
try_add_gen_insert(t, dominator, gen_) ==
  [t EXCEPT !.gen_vars = Put(@, gen_, GenMap(dominator, EmptyMap))]

\* Translator::try_add_gen: inserts only when gen_ is vacant
try_add_gen(t, dominator, gen_) ==
  IF Has(t.gen_vars, gen_) THEN t
  ELSE [t EXCEPT !.gen_vars = Put(@, gen_, GenMap(dominator, EmptyMap))]

\* the Translator built by BuildMir::new
NewTranslator ==
  try_add_gen([gen_vars |-> EmptyMap, locations |-> EmptyMap, located |-> EmptyMap,
               vars |-> EmptyMap, exprs |-> EmptyMap, places |-> EmptyMap,
               tys |-> EmptyMap, subst |-> EmptyMap, panicked |-> FALSE,
               memo_reads |-> 0, trlog |-> << >>,
               next_var |-> 0, cur_gen |-> ROOT], ROOT, ROOT)

\* TranslateBase::make for ty::ExprKind::Var(v) and ty::PlaceKind::Var(v): the
\* place recorded for the location of v, else the location itself
make_ty_var(t, v) ==
  Bind(location(t, v), LAMBDA r :
    [t |-> r.t, val |-> IF Has(r.t.vars, r.val) THEN r.t.vars[r.val] ELSE r.val])

\* an entry of a TrMap for an expression with variables: one translation per generation
TrMapGet(m, v, gen_) == Has(m, v) /\ Has(m[v], gen_)
TrMapPut(m, v, gen_, val) == Put(m, v, Put(IF Has(m, v) THEN m[v] ELSE EmptyMap, gen_, val))

\* Translate for &WithMeta<ty::ExprKind> on Var(v), with an empty substitution:
\* the translation memoised for the current generation, else make
tr_ty_expr_var(t, v) ==
  IF TrMapGet(t.exprs, v, t.cur_gen) THEN [t |-> t, val |-> t.exprs[v][t.cur_gen]]
  ELSE Bind(make_ty_var(t, v), LAMBDA r :
         [t |-> [r.t EXCEPT !.exprs = TrMapPut(@, v, t.cur_gen, r.val)], val |-> r.val])

\* Translate for &WithMeta<ty::PlaceKind> on Var(v)
tr_ty_place_var(t, v) ==
  IF TrMapGet(t.places, v, t.cur_gen) THEN [t |-> t, val |-> t.places[v][t.cur_gen]]
  ELSE Bind(make_ty_var(t, v), LAMBDA r :
         [t |-> [r.t EXCEPT !.places = TrMapPut(@, v, t.cur_gen, r.val)], val |-> r.val])

(* ------------------------------------------------------------------ *)
(* Translator: memoised translation of types, expressions and places   *)
(* ------------------------------------------------------------------ *)
\* a translated node (an Rc): its kind, an identifier, its parts, and as
\* history whether it was made while the substitution map was non-empty
Out(k, v, sub, under) == [k |-> k, v |-> v, sub |-> sub, under |-> under]

\* tuple patterns of types: TuplePatternKind::Name and ::Tuple(pats, mk), with
\* the pattern's variable and its type
TPatName(v, ty) == [var |-> v, name |-> TRUE, mk |-> "Name", pats |-> << >>, ty |-> <<ty>>]
TPatTuple(v, mk, pats, ty) == [var |-> v, name |-> FALSE, mk |-> mk, pats |-> pats, ty |-> <<ty>>]

\* ty::ExprKind and ty::PlaceKind nodes; id stands for the address of the node
ExprUnit(id) == [id |-> id, k |-> "Unit", v |-> "", has_var |-> FALSE]
ExprVar(id, v) == [id |-> id, k |-> "Var", v |-> v, has_var |-> TRUE]

\* ty::TyKind nodes; has_var is ty::Flags::HAS_VAR
TyUnit(id) ==
  [id |-> id, k |-> "Unit", has_var |-> FALSE, e |-> << >>, pat |-> << >>, body |-> << >>, args |-> << >>]
TyPure(id, e) ==
  [id |-> id, k |-> "Pure", has_var |-> e.has_var, e |-> <<e>>, pat |-> << >>, body |-> << >>,
   args |-> << >>]
TyAll(id, pat, body) ==
  [id |-> id, k |-> "All", has_var |-> TRUE, e |-> << >>, pat |-> <<pat>>, body |-> <<body>>,
   args |-> << >>]
TyStruct(id, args) ==
  [id |-> id, k |-> "Struct", has_var |-> TRUE, e |-> << >>, pat |-> << >>, body |-> << >>,
   args |-> args]
\* ty::ArgKind::Lam(pat) and ::Let(pat, e)
ArgLam(pat) == [k |-> "Lam", pat |-> pat, e |-> << >>]
ArgLet(pat, e) == [k |-> "Let", pat |-> pat, e |-> <<e>>]

\* a TrMap entry: Ok(r) for a node without variables, else Err(m), one
\* translation per generation
TrMapLookup(tab, id, gen_) ==
  IF ~Has(tab, id) THEN [hit |-> FALSE, val |-> Out("", 0, << >>, FALSE)]
  ELSE IF tab[id].ok THEN [hit |-> TRUE, val |-> tab[id].r]
  ELSE IF Has(tab[id].m, gen_) THEN [hit |-> TRUE, val |-> tab[id].m[gen_]]
  ELSE [hit |-> FALSE, val |-> Out("", 0, << >>, FALSE)]
TrMapStore(tab, id, has_var, gen_, r) ==
  IF Has(tab, id) THEN [tab EXCEPT ![id].m = Put(@, gen_, r)]
  ELSE Put(tab, id, IF has_var THEN [ok |-> FALSE, r |-> r, m |-> Put(EmptyMap, gen_, r)]
                    ELSE [ok |-> TRUE, r |-> r, m |-> EmptyMap])

\* the memoisation tables
MemoTables(t) == [tys |-> t.tys, exprs |-> t.exprs, places |-> t.places]

\* history: the call tr(node id), entered in translator t0, returned r
Logged(t0, id, r) ==
  [t |-> [r.t EXCEPT !.trlog = Append(@,
            [id |-> id, subst0 |-> t0.subst, subst1 |-> r.t.subst,
             memo0 |-> MemoTables(t0), memo1 |-> MemoTables(r.t),
             reads0 |-> t0.memo_reads, reads1 |-> r.t.memo_reads, val |-> r.val])],
   val |-> r.val]

\* TranslateBase::make for ty::ExprKind and ty::PlaceKind
make_expr(t, e) ==
  IF e.k = "Unit" THEN [t |-> t, val |-> Out("Unit", 0, << >>, t.subst # EmptyMap)]
  ELSE Bind(make_ty_var(t, e.v), LAMBDA r :
         [t |-> r.t, val |-> Out("Var", r.val, << >>, t.subst # EmptyMap)])

\* a translation of expressions and places that memoises whatever the
\* substitution map holds
tr_expr_memo_always(t, tab, e) ==
  Logged(t, e.id,
    Bind([t EXCEPT !.memo_reads = @ + 1], LAMBDA t0 :
    Bind(TrMapLookup(t[tab], e.id, t.cur_gen), LAMBDA g :
      IF g.hit THEN [t |-> t0, val |-> g.val]
      ELSE Bind(make_expr(t0, e), LAMBDA r :
             [t |-> [r.t EXCEPT ![tab] = TrMapStore(@, e.id, e.has_var, t.cur_gen, r.val)],
              val |-> r.val]))))

\* Translate for &WithMeta<ty::ExprKind> (tab = "exprs") and
\* &WithMeta<ty::PlaceKind> (tab = "places")
tr_expr(t, tab, e) ==
  Logged(t, e.id,
    IF t.subst = EmptyMap
    THEN Bind([t EXCEPT !.memo_reads = @ + 1], LAMBDA t0 :
         Bind(TrMapLookup(t[tab], e.id, t.cur_gen), LAMBDA g :
           IF g.hit THEN [t |-> t0, val |-> g.val]
           ELSE Bind(make_expr(t0, e), LAMBDA r :
                  [t |-> [r.t EXCEPT ![tab] = TrMapStore(@, e.id, e.has_var, t.cur_gen, r.val)],
                   val |-> r.val])))
    ELSE make_expr(t, e))

\* Translator::tr_tup_pat(pat, e) for the match kinds Unit and Struct
RECURSIVE tr_tup_pat(_, _, _)
RECURSIVE tr_tup_pats(_, _, _, _)
tr_tup_pat(t, pat, e) ==
  Bind(IF Has(t.subst, pat.var) THEN [t EXCEPT !.panicked = TRUE]
       ELSE [t EXCEPT !.subst = Put(@, pat.var, e)], LAMBDA t1 :
    IF pat.name \/ pat.mk = "Unit" THEN t1 ELSE tr_tup_pats(t1, pat.pats, e, 0))
tr_tup_pats(t, pats, e, i) ==
  IF pats = << >> THEN t
  ELSE tr_tup_pats(tr_tup_pat(t, Head(pats), Out("Proj", i, <<e>>, t.subst # EmptyMap)),
                   Tail(pats), e, i + 1)

\* Translator::finish_tup_pat(pat)
RECURSIVE finish_tup_pat(_, _)
RECURSIVE finish_tup_pats(_, _)
finish_tup_pat(t, pat) ==
  Bind(IF pat.name THEN t ELSE finish_tup_pats(t, pat.pats), LAMBDA t1 :
    [t1 EXCEPT !.subst = [x \in (DOMAIN @) \ {pat.var} |-> @[x]]])
finish_tup_pats(t, pats) ==
  IF pats = << >> THEN t
  ELSE finish_tup_pats(finish_tup_pat(t, pats[Len(pats)]), SubSeq(pats, 1, Len(pats) - 1))

RECURSIVE tr_ty_memo_always(_, _)
RECURSIVE tr_ty(_, _)
RECURSIVE make_ty(_, _)
RECURSIVE tr_all(_, _)
RECURSIVE tr_struct_args(_, _, _)
RECURSIVE tr_struct_finish(_, _)

\* a translation of types that memoises whatever the substitution map holds
tr_ty_memo_always(t, n) ==
  Logged(t, n.id,
    Bind([t EXCEPT !.memo_reads = @ + 1], LAMBDA t0 :
    Bind(TrMapLookup(t.tys, n.id, t.cur_gen), LAMBDA g :
      IF g.hit THEN [t |-> t0, val |-> g.val]
      ELSE Bind(make_ty(t0, n), LAMBDA r :
             [t |-> [r.t EXCEPT !.tys = TrMapStore(@, n.id, n.has_var, t.cur_gen, r.val)],
              val |-> r.val]))))

\* Translate for &WithMeta<ty::TyKind>: memoised only while the substitution
\* map is empty
tr_ty(t, n) ==
  Logged(t, n.id,
    IF t.subst = EmptyMap
    THEN Bind([t EXCEPT !.memo_reads = @ + 1], LAMBDA t0 :
         Bind(TrMapLookup(t.tys, n.id, t.cur_gen), LAMBDA g :
           IF g.hit THEN [t |-> t0, val |-> g.val]
           ELSE Bind(make_ty(t0, n), LAMBDA r :
                  [t |-> [r.t EXCEPT !.tys = TrMapStore(@, n.id, n.has_var, t.cur_gen, r.val)],
                   val |-> r.val])))
    ELSE make_ty(t, n))

\* TranslateBase::make for ty::TyKind
make_ty(t, n) ==
  IF n.k = "Unit" THEN [t |-> t, val |-> Out("Unit", 0, << >>, t.subst # EmptyMap)]
  ELSE IF n.k = "Pure"
  THEN Bind(tr_expr(t, "exprs", n.e[1]), LAMBDA r :
         [t |-> r.t, val |-> Out("Pure", 0, <<r.val>>, t.subst # EmptyMap)])
  ELSE IF n.k = "All" THEN tr_all(t, n)
  ELSE Bind(tr_struct_args(t, n.args, << >>), LAMBDA r :
         [t |-> tr_struct_finish(r.t, n.args), val |-> Out("Struct", 0, r.val, t.subst # EmptyMap)])

\* Translator::tr_all(pat, ty)
tr_all(t, n) ==
  Bind(n.pat[1], LAMBDA pat :
  Bind(tr_var(t, pat.var, t.cur_gen), LAMBDA v :
  Bind(tr_ty(v.t, pat.ty[1]), LAMBDA tgt :
    IF pat.name
    THEN Bind(tr_ty(tgt.t, n.body[1]), LAMBDA ty :
           [t |-> ty.t, val |-> Out("All", v.val, <<tgt.val, ty.val>>, t.subst # EmptyMap)])
    ELSE Bind(tr_ty(tr_tup_pat(tgt.t, pat, Out("Var", v.val, << >>, t.subst # EmptyMap)), n.body[1]),
              LAMBDA ty :
           [t |-> finish_tup_pat(ty.t, pat),
            val |-> Out("All", v.val, <<tgt.val, ty.val>>, t.subst # EmptyMap)]))))

\* the first loop of Translator::tr_struct(args)
tr_struct_args(t, args, acc) ==
  IF args = << >> THEN [t |-> t, val |-> acc]
  ELSE Bind(Head(args), LAMBDA arg :
       IF arg.k = "Lam"
       THEN Bind(tr_var(t, arg.pat.var, t.cur_gen), LAMBDA v :
            Bind(tr_ty(v.t, arg.pat.ty[1]), LAMBDA ty :
              tr_struct_args(IF arg.pat.name THEN ty.t
                             ELSE tr_tup_pat(ty.t, arg.pat, Out("Var", v.val, << >>, t.subst # EmptyMap)),
                             Tail(args), Append(acc, Out("Arg", v.val, <<ty.val>>, t.subst # EmptyMap)))))
       ELSE Bind(tr_expr(t, "exprs", arg.e[1]), LAMBDA e :
              tr_struct_args(tr_tup_pat(e.t, arg.pat, e.val), Tail(args), acc)))

\* the second loop of Translator::tr_struct(args)
tr_struct_finish(t, args) ==
  IF args = << >> THEN t
  ELSE tr_struct_finish(IF Head(args).k = "Lam" /\ Head(args).pat.name THEN t
                        ELSE finish_tup_pat(t, Head(args).pat), Tail(args))

\* BuildMir::tr_gen for a type and for an expression or place:
\* with_gen(gen_, tr) restores the current generation
tr_gen_ty(t, n, gen_) ==
  Bind(tr_ty([t EXCEPT !.cur_gen = gen_], n), LAMBDA r :
    [t |-> [r.t EXCEPT !.cur_gen = t.cur_gen], val |-> r.val])
tr_gen_expr(t, tab, e, gen_) ==
  Bind(tr_expr([t EXCEPT !.cur_gen = gen_], tab, e), LAMBDA r :
    [t |-> [r.t EXCEPT !.cur_gen = t.cur_gen], val |-> r.val])

\* Cfg::default: no context entry, no block
NewCfg == [ctxs |-> << >>, blocks |-> << >>, max_var |-> 0]

\* self.returns = None
NoReturns == [has |-> FALSE, outs |-> << >>, args |-> << >>]

\* BuildMir::new; tree and groups are the ordered and groups lists of the
\* BlockTreeBuilder. jumps, assigns, ifs and whiles are history: the calls of
\* join, the assignments lowered, the expr_if calls returned and the
\* rvalue_while calls made so far; nlabels counts the label entries pushed and
\* registered tells that build_item inserted the procedure into the output map
NewBuildMir ==
  [tr |-> NewTranslator, cfg |-> NewCfg, cur_block |-> ENTRY, cur_ctx |-> CtxROOT,
   globals |-> << >>, tree |-> << >>, groups |-> << >>, labels |-> << >>,
   returns |-> NoReturns, panicked |-> FALSE, registered |-> FALSE, nlabels |-> 0,
   jumps |-> << >>, assigns |-> << >>, ifs |-> << >>, whiles |-> << >>, lblocks |-> << >>,
   verify_termination |-> FALSE, reterminated |-> FALSE]

(* ------------------------------------------------------------------ *)
(* Cfg: the typing-context chain and the block list                    *)
(* ------------------------------------------------------------------ *)
\* a context entry (variable, relevance) extending context parent; context
\* identifier i > 0 is entry i of cfg.ctxs, CtxROOT is the empty context
ctxs_extend(cfg, ctx, var, rel) ==
  [cfg |-> [cfg EXCEPT !.ctxs = Append(@, [parent |-> ctx, var |-> var, rel |-> rel])],
   id  |-> Len(cfg.ctxs) + 1]

\* the entries of context ctx, innermost first
RECURSIVE ctxs_rev_iter(_, _)
ctxs_rev_iter(cfg, ctx) ==
  IF ctx = CtxROOT THEN << >>
  ELSE <<cfg.ctxs[ctx]>> \o ctxs_rev_iter(cfg, cfg.ctxs[ctx].parent)

ctxs_len(cfg, ctx) == Len(ctxs_rev_iter(cfg, ctx))

NoTerm == [k |-> "None"]

\* block identifier i is entry i + 1 of cfg.blocks
Blk(cfg, id) == cfg.blocks[id + 1]

\* Cfg::new_block; site is history: the context in force where the block's
\* terminator was emitted
cfg_new_block(cfg, ctx, parent) ==
  [cfg |-> [cfg EXCEPT !.blocks = Append(@, [ctx |-> ctx, parent |-> parent, stmts |-> << >>,
                                              term |-> NoTerm, site |-> CtxROOT])],
   id  |-> Len(cfg.blocks)]

\* BasicBlock::terminate: a block takes one terminator
terminate(b, blk, term) ==
  IF Blk(b.cfg, blk).term # NoTerm THEN [b EXCEPT !.panicked = TRUE, !.reterminated = TRUE]
  ELSE [b EXCEPT !.cfg.blocks[blk + 1].term = term, !.cfg.blocks[blk + 1].site = b.cur_ctx]

(* ------------------------------------------------------------------ *)
(* Statements and terminators                                          *)
(* ------------------------------------------------------------------ *)
\* Statement::Let(LetKind::Let(v, _), r, _, rvalue reading the variables uses);
\* rv is the kind of the rvalue: RValue::Use
StmtLet(v, r, uses) ==
  [k |-> "Let", def |-> <<v>>, rel |-> r, uses |-> uses, renames |-> << >>, tgt |-> 0, ctx |-> 0,
   group |-> << >>, rv |-> "Use"]
\* Statement::Let(LetKind::Let(v, _), r, _, RValue::List(vs))
StmtLetList(v, r, vs) ==
  [k |-> "Let", def |-> <<v>>, rel |-> r, uses |-> {vs[i] : i \in 1 .. Len(vs)}, renames |-> << >>,
   tgt |-> 0, ctx |-> 0, group |-> << >>, rv |-> "List"]
\* Statement::Assign(lhs, _, rhs, renames)
StmtAssign(lhs, uses, renames) ==
  [k |-> "Assign", def |-> << >>, rel |-> TRUE, uses |-> {lhs} \cup uses,
   renames |-> renames, tgt |-> 0, ctx |-> 0, group |-> << >>, rv |-> "None"]
\* Statement::DominatedBlock(bl, ctx)
StmtDominatedBlock(bl, ctx) ==
  [k |-> "DominatedBlock", def |-> << >>, rel |-> TRUE, uses |-> {}, renames |-> << >>,
   tgt |-> bl, ctx |-> ctx, group |-> << >>, rv |-> "None"]
\* Statement::LabelGroup(bls, ctx)
StmtLabelGroup(bls, ctx) ==
  [k |-> "LabelGroup", def |-> << >>, rel |-> TRUE, uses |-> {}, renames |-> << >>,
   tgt |-> 0, ctx |-> ctx, group |-> bls, rv |-> "None"]
\* Statement::PopLabelGroup
StmtPopLabelGroup ==
  [k |-> "PopLabelGroup", def |-> << >>, rel |-> TRUE, uses |-> {}, renames |-> << >>,
   tgt |-> 0, ctx |-> 0, group |-> << >>, rv |-> "None"]

TermIf(ctx, cond, vh1, tru, vh2, fal) ==
  [k |-> "If", ctx |-> ctx, cond |-> cond, tgts |-> <<[v |-> vh1, bl |-> tru], [v |-> vh2, bl |-> fal]>>]
TermJump(tgt, args) == [k |-> "Jump", tgt |-> tgt, args |-> args]
TermFail == [k |-> "Fail"]
\* Terminator::Return(outs, args)
TermReturn(outs, args) == [k |-> "Return", outs |-> outs, args |-> args]
\* Terminator::Call {ctx, tgt, rets, ..} of a call that returns
TermCall(ctx, tgt, rets) == [k |-> "Call", ctx |-> ctx, tgt |-> tgt, rets |-> rets]
\* Terminator::Exit(o)
TermExit(o) == [k |-> "Exit", o |-> o]

\* BlockTree::One(bl) and BlockTree::LabelGroup((group, body))
TreeOne(bl) == [k |-> "One", bl |-> bl, group |-> << >>, body |-> << >>]
TreeLabelGroup(group, body) == [k |-> "LabelGroup", bl |-> 0, group |-> group, body |-> body]
\* BlockTreeBuilder::push, push_group, pop and truncate
tree_push(b, bl) == [b EXCEPT !.tree = Append(@, TreeOne(bl))]
tree_push_group(b, group) ==
  [b EXCEPT !.groups = Append(@, [many |-> b.tree, group |-> group]), !.tree = << >>]
tree_pop(b) ==
  IF b.groups = << >> THEN [b EXCEPT !.panicked = TRUE]
  ELSE [b EXCEPT !.groups = SubSeq(@, 1, Len(@) - 1),
                 !.tree = Append(b.groups[Len(b.groups)].many,
                                 TreeLabelGroup(b.groups[Len(b.groups)].group, b.tree))]
RECURSIVE tree_truncate(_, _)
tree_truncate(b, n) == IF Len(b.groups) <= n THEN b ELSE tree_truncate(tree_pop(b), n)

(* ------------------------------------------------------------------ *)
(* BuildMir: cursor, contexts, statements                              *)
(* ------------------------------------------------------------------ *)
cur(b) == <<b.cur_block, b.cur_ctx, b.tr.cur_gen>>
set(b, pos) == [b EXCEPT !.cur_block = pos[1], !.cur_ctx = pos[2], !.tr.cur_gen = pos[3]]

\* BuildMir::new_block: a block starting in the current context
new_block(b, parent) ==
  Bind(cfg_new_block(b.cfg, b.cur_ctx, parent), LAMBDA r :
    [b |-> [b EXCEPT !.cfg = r.cfg], id |-> r.id])

\* a dominated block whose parent length is the one of the current context
dominated_block_cur_len(b, ctx) ==
  Bind(new_block(b, ctxs_len(b.cfg, b.cur_ctx)), LAMBDA r :
    [b  |-> [r.b EXCEPT !.cfg.blocks[b.cur_block + 1].stmts = Append(@, StmtDominatedBlock(r.id, ctx))],
     id |-> r.id])

\* BuildMir::dominated_block
dominated_block(b, ctx) ==
  Bind(new_block(b, ctxs_len(b.cfg, ctx)), LAMBDA r :
    [b  |-> [r.b EXCEPT !.cfg.blocks[b.cur_block + 1].stmts = Append(@, StmtDominatedBlock(r.id, ctx))],
     id |-> r.id])

\* BuildMir::extend_ctx
extend_ctx(b, var, rel) ==
  Bind(ctxs_extend(b.cfg, b.cur_ctx, var, rel), LAMBDA r :
    [b EXCEPT !.cfg = r.cfg, !.cur_ctx = r.id])

RECURSIVE extend_ctx_renames(_, _)
extend_ctx_renames(b, renames) ==
  IF renames = << >> THEN b
  ELSE extend_ctx_renames(extend_ctx(b, Head(renames).to, Head(renames).rel), Tail(renames))

\* BuildMir::push_stmt: the variables the statement binds enter the current
\* context, then the statement is appended to the current block
push_stmt(b, stmt) ==
  Bind(IF stmt.k = "Let" THEN extend_ctx(b, stmt.def[1], stmt.rel)
       ELSE IF stmt.k = "Assign" THEN extend_ctx_renames(b, stmt.renames)
       ELSE b, LAMBDA b1 :
    [b1 EXCEPT !.cfg.blocks[b1.cur_block + 1].stmts = Append(@, stmt)])

\* Translate for HVarId: resolve in the current generation
tr_hvar(b, v) ==
  Bind(tr_var(b.tr, v, b.tr.cur_gen), LAMBDA r : [b |-> [b EXCEPT !.tr = r.t], val |-> r.val])

\* BuildMir::tr_gen for HVarId: resolve in generation gen_ (with_gen restores cur_gen)
tr_gen(b, v, gen_) ==
  Bind(tr_var(b.tr, v, gen_), LAMBDA r : [b |-> [b EXCEPT !.tr = r.t], val |-> r.val])

\* PreVar destinations
PreOk(v) == [k |-> "Ok", v |-> v, h |-> ""]
PrePre(h) == [k |-> "Pre", v |-> 0, h |-> h]
PreFresh == [k |-> "Fresh", v |-> 0, h |-> ""]
NoDest == [k |-> "None", v |-> 0, h |-> ""]

\* Translate for PreVar, in generation gen_
tr_prevar(b, pv, gen_) ==
  IF pv.k = "Ok" THEN [b |-> b, val |-> pv.v]
  ELSE IF pv.k = "Pre" THEN tr_gen(b, pv.h, gen_)
  ELSE Bind(fresh_var(b.tr), LAMBDA f : [b |-> [b EXCEPT !.tr = f.t], val |-> f.val])

(* ------------------------------------------------------------------ *)
(* Joins                                                               *)
(* ------------------------------------------------------------------ *)
\* the relevance of the innermost entry for identifier id in context ctx
FindInCtx(cfg, ctx, id) ==
  LET es == ctxs_rev_iter(cfg, ctx)
      hits == {i \in 1 .. Len(es) : es[i].var = id}
  IN IF hits = {} THEN [found |-> FALSE, rel |-> FALSE]
     ELSE [found |-> TRUE, rel |-> es[CHOOSE i \in hits : \A j \in hits : i <= j].rel]

\* join_args that keeps the variables whose resolution did not change
RECURSIVE join_args_no_filter(_, _, _, _, _)
join_args_no_filter(b, ctx, gen_, muts, args) ==
  IF muts = << >> THEN [b |-> b, args |-> args]
  ELSE
    Bind(tr_hvar(b, Head(muts)), LAMBDA from :
    Bind(tr_gen(from.b, Head(muts), gen_), LAMBDA to :
    Bind(FindInCtx(to.b.cfg, ctx, from.val), LAMBDA r :
      join_args_no_filter(to.b, ctx, gen_, Tail(muts),
        IF ~r.found THEN args
        ELSE Append(args, [to |-> to.val, rel |-> r.rel, from |-> from.val])))))

\* BuildMir::join_args: for each variable of the join point whose resolution
\* in the current generation differs from the one in the target generation,
\* an argument (to, relevance, from)
RECURSIVE join_args(_, _, _, _, _)
join_args(b, ctx, gen_, muts, args) ==
  IF muts = << >> THEN [b |-> b, args |-> args]
  ELSE
    Bind(tr_hvar(b, Head(muts)), LAMBDA from :
    Bind(tr_gen(from.b, Head(muts), gen_), LAMBDA to :
    Bind(FindInCtx(to.b.cfg, ctx, from.val), LAMBDA r :
      join_args(to.b, ctx, gen_, Tail(muts),
        IF from.val = to.val \/ ~r.found THEN args
        ELSE Append(args, [to |-> to.val, rel |-> r.rel, from |-> from.val])))))

\* BuildMir::join: jump from the current block to join block jb = (tgt, (gen_, muts))
join(b, jb, args) ==
  Bind(join_args(b, Blk(b.cfg, jb.tgt).ctx, jb.gen, jb.muts, args), LAMBDA r :
    [terminate(r.b, r.b.cur_block, TermJump(jb.tgt, r.args))
       EXCEPT !.jumps = Append(@, [blk |-> b.cur_block, tgt |-> jb.tgt, src_gen |-> b.tr.cur_gen,
                                   gen |-> jb.gen, muts |-> jb.muts, given |-> Len(args),
                                   args |-> r.args])])

JoinBlock(tgt, gen_, muts) == [tgt |-> tgt, gen |-> gen_, muts |-> muts]

(* ------------------------------------------------------------------ *)
(* Lowering of expressions and statements                              *)
(* ------------------------------------------------------------------ *)
\* the source expressions lowered as operands: a constant, or a read of a
\* source variable in the current generation
Const == "const"

\* BuildMir::expr_place for ExprKind::Var(v, gen_): the place recorded for the
\* identifier by a pattern, else the identifier itself
expr_place(b, v, gen_) ==
  Bind(tr_gen(b, v, gen_), LAMBDA r :
    [b |-> r.b, val |-> IF Has(r.b.tr.vars, r.val) THEN r.b.tr.vars[r.val] ELSE r.val])

\* BuildMir::place for PlaceKind::Var(v)
place(b, v) ==
  Bind(location(b.tr, v), LAMBDA r :
    [b |-> [b EXCEPT !.tr = r.t], val |-> IF Has(r.t.vars, r.val) THEN r.t.vars[r.val] ELSE r.val])

\* BuildMir::operand: the variables the operand reads
operand(b, e) ==
  IF e = Const THEN [b |-> b, uses |-> {}]
  ELSE Bind(expr_place(b, e, b.tr.cur_gen), LAMBDA r : [b |-> r.b, uses |-> {r.val}])

\* BuildMir::tup_pat for a name pattern of a local: the identifier is its own place
tup_pat(b, v) ==
  Bind(tr_hvar(b, v), LAMBDA r : [r.b EXCEPT !.tr.vars = Put(@, r.val, r.val)])

\* BuildMir::expr with a destination, for an operand expression:
\* dest := e in the current block
expr_dest(b, e, dest) ==
  Bind(operand(b, e), LAMBDA o :
  Bind(tr_prevar(o.b, dest, o.b.tr.cur_gen), LAMBDA d :
    push_stmt(d.b, StmtLet(d.val, TRUE, o.uses))))

\* BuildMir::let_stmt: let v := e
let_stmt(b, v, e) == tup_pat(expr_dest(b, e, PrePre(v)), v)

\* BuildMir::as_temp of an operand expression
as_temp(b, e) ==
  Bind(fresh_var(b.tr), LAMBDA f :
    [b |-> expr_dest([b EXCEPT !.tr = f.t], e, PreOk(f.val)), val |-> f.val])

\* BuildMir::expr for ExprKind::Assign {lhs: old, rhs, map: [(new, old)], gen_}
expr_assign(b, old, new, rhs, gen_) ==
  Bind(place(b, old), LAMBDA l :
  Bind(operand(l.b, rhs), LAMBDA o :
  Bind(tr_hvar(o.b, new), LAMBDA n :
  Bind(n.b.tr.cur_gen, LAMBDA g :
  Bind(IF add_gen_panics(n.b.tr, gen_) THEN [n.b EXCEPT !.panicked = TRUE]
       ELSE [n.b EXCEPT !.tr = add_gen(@, g, gen_, Put(EmptyMap, old, n.val))], LAMBDA b1 :
  Bind(tr_hvar(b1, new), LAMBDA from :
  Bind(tr_gen(from.b, new, gen_), LAMBDA to :
  Bind(push_stmt([to.b EXCEPT !.tr.cur_gen = gen_],
                 StmtAssign(l.val, o.uses, <<[from |-> from.val, to |-> to.val, rel |-> TRUE]>>)),
       LAMBDA b3 :
    [b3 EXCEPT !.assigns = Append(@,
       [old |-> old, new |-> new, g |-> g, gen |-> gen_, blk |-> b3.cur_block,
        at |-> Len(Blk(b3.cfg, b3.cur_block).stmts),
        pre |-> tr_var(b.tr, old, g).val, post |-> tr_var(b3.tr, old, gen_).val,
        from |-> from.val, to |-> to.val, dominator |-> b3.tr.gen_vars[gen_].dominator,
        cur_gen |-> b3.tr.cur_gen])]))))))))

\* BuildMir::rvalue_block on entry, for a block without labels
rvalue_block_enter(b, gen_) == [b EXCEPT !.tr = try_add_gen(@, @.cur_gen, gen_)]

\* BuildMir::push_args for name-pattern arguments
RECURSIVE push_args_raw(_, _)
push_args_raw(b, args) ==
  IF args = << >> THEN b
  ELSE Bind(tr_hvar(b, Head(args)), LAMBDA r :
         push_args_raw(extend_ctx(r.b, r.val, TRUE), Tail(args)))

RECURSIVE push_args_pats(_, _)
push_args_pats(b, args) ==
  IF args = << >> THEN b ELSE push_args_pats(tup_pat(b, Head(args)), Tail(args))

push_args(b, args) ==
  Bind(new_block(push_args_raw(b, args), ctxs_len(b.cfg, b.cur_ctx)), LAMBDA r :
    [b |-> push_args_pats([r.b EXCEPT !.cur_block = r.id], args), id |-> r.id])

(* ------------------------------------------------------------------ *)
(* expr_if                                                             *)
(* ------------------------------------------------------------------ *)
\* the smallest generation not yet registered
FreshGen(b) == Cardinality(DOMAIN b.tr.gen_vars)

\* BuildMir::expr_if for a non-trivial condition without hypothesis names, up
\* to the point where the true arm (a block of generation arm_gen) is entered
expr_if_begin(b, cond, gen_, muts, dest, arm_gen, sc) ==
  Bind(as_temp(b, cond), LAMBDA c :
  Bind(fresh_var(c.b.tr), LAMBDA h1 :
  Bind(fresh_var(h1.t), LAMBDA h2 :
  Bind(cur(c.b), LAMBDA base :
  Bind([c.b EXCEPT !.tr = try_add_gen(h2.t, base[3], gen_)], LAMBDA b2 :
  Bind(ctxs_len(b2.cfg, base[2]), LAMBDA base_len :
  Bind(ctxs_extend(b2.cfg, base[2], h1.val, FALSE), LAMBDA tc :
  Bind(cfg_new_block(tc.cfg, tc.id, base_len), LAMBDA tb :
  Bind(ctxs_extend(tb.cfg, base[2], h2.val, FALSE), LAMBDA fc :
  Bind(cfg_new_block(fc.cfg, fc.id, base_len), LAMBDA fb :
  Bind(terminate([b2 EXCEPT !.cfg = fb.cfg], b2.cur_block,
                 TermIf(base[2], c.val, h1.val, tb.id, h2.val, fb.id)), LAMBDA b3 :
  Bind(IF dest.k = "None" THEN [b |-> b3, val |-> 0] ELSE tr_prevar(b3, dest, gen_), LAMBDA x :
    [b |-> rvalue_block_enter(set(x.b, <<tb.id, tc.id, base[3]>>), arm_gen),
     frame |-> [kind |-> "if", base |-> base, gen |-> gen_, muts |-> muts, dest |-> dest,
                trans |-> IF dest.k = "None" THEN NoDest ELSE PreOk(x.val),
                tru |-> <<tb.id, tc.id, base[3]>>, fal |-> <<fb.id, fc.id, base[3]>>,
                phase |-> "tru", tru_res |-> "none", tru_end |-> base,
                scope |-> sc, blocks0 |-> Len(b.cfg.blocks)]]))))))))))))

\* expr_if between the arms: the true arm ended at the cursor with result res
expr_if_else(b, f, res, arm_gen) ==
  [b |-> rvalue_block_enter(set(b, f.fal), arm_gen),
   frame |-> [f EXCEPT !.phase = "fal", !.tru_res = res, !.tru_end = cur(b)]]

\* a join that leaves the cursor in the context before the if
expr_if_join_base_ctx(b, f, tru, fal) ==
  Bind(IF f.trans.k = "None" THEN set(b, f.base)
       ELSE extend_ctx(set(b, f.base), f.trans.v, TRUE), LAMBDA b2 :
  Bind(dominated_block(b2, f.base[2]), LAMBDA j :
  Bind(JoinBlock(j.id, f.gen, f.muts), LAMBDA jb :
  Bind(IF f.trans.k = "None" THEN << >>
       ELSE <<[to |-> f.trans.v, rel |-> TRUE, from |-> f.trans.v]>>, LAMBDA args :
  Bind(join(set(j.b, tru), jb, args), LAMBDA b3 :
  Bind(join(set(b3, fal), jb, args), LAMBDA b4 :
    set(tree_push(b4, j.id), <<j.id, f.base[2], f.gen>>)))))))

\* the join of both arms
expr_if_join(b, f, tru, fal) ==
  Bind(IF f.trans.k = "None" THEN set(b, f.base)
       ELSE extend_ctx(set(b, f.base), f.trans.v, TRUE), LAMBDA b2 :
  Bind(b2.cur_ctx, LAMBDA after_ctx :
  Bind(dominated_block(b2, f.base[2]), LAMBDA j :
  Bind(JoinBlock(j.id, f.gen, f.muts), LAMBDA jb :
  Bind(IF f.trans.k = "None" THEN << >>
       ELSE <<[to |-> f.trans.v, rel |-> TRUE, from |-> f.trans.v]>>, LAMBDA args :
  Bind(join(set(j.b, tru), jb, args), LAMBDA b3 :
  Bind(join(set(b3, fal), jb, args), LAMBDA b4 :
    set(tree_push(b4, j.id), <<j.id, after_ctx, f.gen>>))))))))

IfRecord(b, b1, f, fal_res, res) ==
  [tru_res |-> f.tru_res, fal_res |-> fal_res, res |-> res, base |-> f.base,
   gen |-> f.gen, muts |-> f.muts, trans |-> f.trans, tru |-> f.tru[1],
   fal |-> f.fal[1], tru_end |-> f.tru_end, fal_end |-> cur(b), after |-> cur(b1),
   blocks0 |-> f.blocks0, blocks1 |-> Len(b.cfg.blocks),
   blocks2 |-> Len(b1.cfg.blocks), jumps1 |-> Len(b.jumps), jumps2 |-> Len(b1.jumps)]

\* expr_if_end that allocates a join block also when both arms diverged
expr_if_end_join_diverged(b, f, fal_res) ==
  Bind(IF f.tru_res = "Err" /\ fal_res = "Err" THEN "Err" ELSE "Ok", LAMBDA res :
  Bind(IF f.tru_res = "Err" /\ fal_res = "Err"
       THEN dominated_block(set(b, f.base), f.base[2]).b
       ELSE IF fal_res = "Err" THEN set(b, f.tru_end)
       ELSE IF f.tru_res = "Err" THEN set(b, cur(b))
       ELSE expr_if_join(b, f, f.tru_end, cur(b)), LAMBDA b1 :
    [b |-> [b1 EXCEPT !.ifs = Append(@, IfRecord(b, b1, f, fal_res, res))], res |-> res]))

\* expr_if_end that continues from the start of the diverged arm's sibling
expr_if_end_arm_start(b, f, fal_res) ==
  Bind(IF f.tru_res = "Err" /\ fal_res = "Err" THEN "Err" ELSE "Ok", LAMBDA res :
  Bind(IF f.tru_res = "Err" /\ fal_res = "Err" THEN b
       ELSE IF fal_res = "Err" THEN set(b, f.tru)
       ELSE IF f.tru_res = "Err" THEN set(b, f.fal)
       ELSE expr_if_join(b, f, f.tru_end, cur(b)), LAMBDA b1 :
    [b |-> [b1 EXCEPT !.ifs = Append(@, IfRecord(b, b1, f, fal_res, res))], res |-> res]))

\* expr_if after both arms: the false arm ended at the cursor with result fal_res
expr_if_end(b, f, fal_res) ==
  Bind(IF f.tru_res = "Err" /\ fal_res = "Err" THEN "Err" ELSE "Ok", LAMBDA res :
  Bind(IF f.tru_res = "Err" /\ fal_res = "Err" THEN b
       ELSE IF fal_res = "Err" THEN set(b, f.tru_end)
       ELSE IF f.tru_res = "Err" THEN set(b, cur(b))
       ELSE expr_if_join(b, f, f.tru_end, cur(b)), LAMBDA b1 :
    [b |-> [b1 EXCEPT !.ifs = Append(@, IfRecord(b, b1, f, fal_res, res))], res |-> res]))

(* ------------------------------------------------------------------ *)
(* build_item                                                          *)
(* ------------------------------------------------------------------ *)
Ok(pos) == [ok |-> TRUE, pos |-> pos]
Err == [ok |-> FALSE, pos |-> <<0, 0, 0>>]

\* Initializer::default: a Cfg with one block, the cursor at its start
NewInitializer ==
  Bind(cfg_new_block(NewCfg, CtxROOT, 0), LAMBDA r :
    [cfg |-> r.cfg, globals |-> << >>, cur |-> Ok(<<r.id, CtxROOT, ROOT>>)])

\* the Operand of a constant
ConstOperand == -1

\* the entry procedure handed to Initializer::finish: none, or one with nrets
\* return values
NoMain == [has |-> FALSE, nrets |-> 0]
SomeMain(n) == [has |-> TRUE, nrets |-> n]

\* no start routine has been built
NoStart ==
  [built |-> FALSE, main |-> NoMain, pre |-> NewInitializer, cfg |-> NewCfg, globals |-> << >>,
   first |-> 0, next |-> 0]

\* items is history: for each build_item call, the kind of the item, the
\* value of the identifier counter when its lowering started and ended, max_var
\* of the Cfg it handed out and the Initializer before and after it; start is
\* what Initializer::finish returned, with the same history
NewUnit == [init |-> NewInitializer, items |-> << >>, start |-> NoStart]

\* the (identifier, relevance) pairs push_args_raw returns for the return
\* places rets, which it resolved in generation gen_
RECURSIVE ret_places(_, _, _)
ret_places(t, rets, gen_) ==
  IF rets = << >> THEN << >>
  ELSE <<[v |-> tr_var(t, Head(rets), gen_).val, rel |-> TRUE]>> \o ret_places(t, Tail(rets), gen_)

\* build_item for ItemKind::Proc with name-pattern arguments args, no outs and
\* the return places rets, up to the point where the statements of the body
\* are lowered
build_proc_enter(b, args, rets) ==
  Bind(push_args(b, args), LAMBDA p :
  Bind(IF p.id = ENTRY THEN p.b ELSE [p.b EXCEPT !.panicked = TRUE], LAMBDA b1 :
  Bind(b1.cur_ctx, LAMBDA base_ctx :
  Bind(FreshGen(b1), LAMBDA gen_ :
  Bind([b1 EXCEPT !.tr = try_add_gen(@, ROOT, gen_)], LAMBDA b2 :
  Bind(push_args_raw([b2 EXCEPT !.tr.cur_gen = gen_], rets), LAMBDA b3 :
  Bind([b3 EXCEPT !.returns = [has |-> TRUE, outs |-> << >>,
                               args |-> ret_places(b3.tr, rets, gen_)],
                  !.tr.cur_gen = ROOT, !.cur_ctx = base_ctx], LAMBDA b4 :
    rvalue_block_enter(b4, FreshGen(b4)))))))))

\* build_item for ItemKind::Proc after the body diverged: the identifier
\* counter is saved in the Cfg and the procedure is inserted into the output map
\* BlockTreeBuilder::append_to asserts that no label group is open
build_proc_exit(b) ==
  [b EXCEPT !.cfg.max_var = b.tr.next_var, !.registered = TRUE,
            !.panicked = @ \/ b.groups # << >>]

\* the statements let v := constant for the source variables vs, in order
RECURSIVE let_stmts(_, _)
let_stmts(b, vs) ==
  IF vs = << >> THEN b ELSE let_stmts(let_stmt(b, Head(vs), Const), Tail(vs))

\* build_item for a procedure whose body binds the source variables vs and fails
build_item_proc(args, vs) ==
  Bind(let_stmts(build_proc_enter(NewBuildMir, args, << >>), vs), LAMBDA b :
    build_proc_exit(terminate(b, b.cur_block, TermFail)))

\* BuildMir::let_stmt(global = true) for a name pattern: the value is stored
\* to the pattern's variable, which tup_pat then declares as a global
let_stmt_global(b, v, e) ==
  Bind(tr_hvar(expr_dest(b, e, PrePre(v)), v), LAMBDA s :
  Bind(tr_hvar(s.b, v), LAMBDA r :
    [push_stmt(r.b, StmtLet(r.val, TRUE, {s.val}))
       EXCEPT !.globals = Append(@, r.val), !.tr.vars = Put(@, r.val, r.val)]))

Fail == "fail"

\* the builder of a global item after the swap with the Initializer, where the
\* identifier counter is left at the start value of BuildMir::new
global_enter_fresh_counter(b, init) ==
  [b EXCEPT !.cfg = init.cfg, !.globals = init.globals]

\* build_item for ItemKind::Global: the builder takes the Initializer's cfg
\* and globals and continues the identifier counter at cfg.max_var
global_enter(b, init) ==
  [b EXCEPT !.cfg = init.cfg, !.globals = init.globals, !.tr.next_var = init.cfg.max_var]

\* a global item that lowers its initializer at the position the Initializer
\* holds whatever the earlier global items returned
build_item_global_resumed(init, v, e) ==
  Bind(global_enter(NewBuildMir, init), LAMBDA b0 :
  Bind(Bind(set(b0, init.cur.pos), LAMBDA b1 :
         IF e = Fail THEN [b |-> terminate(b1, b1.cur_block, TermFail), cur |-> Err]
         ELSE Bind(let_stmt_global(b1, v, e), LAMBDA b2 : [b |-> b2, cur |-> Ok(cur(b2))])),
       LAMBDA r :
  Bind([r.b EXCEPT !.cfg.max_var = r.b.tr.next_var], LAMBDA b3 :
    [b |-> b3, start |-> b0.tr.next_var,
     init |-> [cfg |-> b3.cfg, globals |-> b3.globals, cur |-> r.cur]])))

\* build_item for ItemKind::Global {lhs: v, rhs: e}, e a constant or an
\* assertion that fails; returns the builder and the Initializer afterwards
build_item_global(init, v, e) ==
  Bind(global_enter(NewBuildMir, init), LAMBDA b0 :
  Bind(IF ~init.cur.ok THEN [b |-> b0, cur |-> Err]
       ELSE Bind(set(b0, init.cur.pos), LAMBDA b1 :
              IF e = Fail THEN [b |-> terminate(b1, b1.cur_block, TermFail), cur |-> Err]
              ELSE Bind(let_stmt_global(b1, v, e), LAMBDA b2 : [b |-> b2, cur |-> Ok(cur(b2))])),
       LAMBDA r :
  Bind([r.b EXCEPT !.cfg.max_var = r.b.tr.next_var], LAMBDA b3 :
    [b |-> b3, start |-> b0.tr.next_var,
     init |-> [cfg |-> b3.cfg, globals |-> b3.globals, cur |-> r.cur]])))

\* the closure of Initializer::finish from the cursor of the Initializer: the
\* call of the entry procedure main, with a fresh variable for its return
\* value when it has one, and the Exit terminator
finish_body(b, main) ==
  IF ~main.has THEN terminate(b, b.cur_block, TermExit(ConstOperand))
  ELSE IF main.nrets > 1 THEN [b EXCEPT !.panicked = TRUE]
  ELSE
  Bind(IF main.nrets = 1
       THEN Bind(fresh_var(b.tr), LAMBDA v :
              [b |-> extend_ctx([b EXCEPT !.tr = v.t], v.val, FALSE),
               rets |-> <<[v |-> v.val, rel |-> FALSE]>>, o |-> v.val])
       ELSE [b |-> b, rets |-> << >>, o |-> ConstOperand], LAMBDA r :
  Bind(new_block(r.b, ctxs_len(b.cfg, b.cur_ctx)), LAMBDA tgt :
  Bind([terminate(tgt.b, tgt.b.cur_block, TermCall(b.cur_ctx, tgt.id, r.rets))
          EXCEPT !.cur_block = tgt.id], LAMBDA b1 :
    terminate(b1, b1.cur_block, TermExit(r.o)))))

\* Initializer::finish: a new builder takes the Initializer's cfg and globals
\* and the identifier counter cfg.max_var; the closure is skipped when the
\* Initializer diverged; returns the builder, whose cfg and globals it hands out
finish(init, main) ==
  Bind([NewBuildMir EXCEPT !.cfg = init.cfg, !.globals = init.globals,
                           !.tr.next_var = init.cfg.max_var], LAMBDA build :
  Bind(IF init.cur.ok THEN finish_body(set(build, init.cur.pos), main) ELSE build, LAMBDA b1 :
    [b1 EXCEPT !.panicked = @ \/ b1.groups # << >>]))

(* ------------------------------------------------------------------ *)
(* expr_if with a trivial condition                                    *)
(* ------------------------------------------------------------------ *)
\* BuildMir::expr for the arms lowered here: an operand (a constant or a
\* variable read), or the assertion that fails (without destination)
expr(b, e, dest) ==
  IF e = Fail THEN [b |-> terminate(b, b.cur_block, TermFail), res |-> "Err"]
  ELSE IF dest.k = "None" THEN [b |-> b, res |-> "Ok"]
  ELSE [b |-> expr_dest(b, e, dest), res |-> "Ok"]

\* the names an if gives to the hypotheses of its arms (hyp = << >>: none)
HypNames == <<"h1", "h2">>

\* the witness statement of the trivial case: let vh: cond := itrue, irrelevant
witness_stmt(b, h) ==
  Bind(tr_hvar(b, h), LAMBDA vh : push_stmt(vh.b, StmtLet(vh.val, FALSE, {})))

\* a trivial expr_if that binds the hypotheses of both arms
expr_if_trivial_both_witnesses(b, cond, hyp, truth, cases, dest) ==
  Bind(as_temp(b, cond), LAMBDA c :
    expr(IF hyp = << >> THEN c.b ELSE witness_stmt(witness_stmt(c.b, hyp[1]), hyp[2]),
         IF truth THEN cases[1] ELSE cases[2], dest))

\* a trivial expr_if that lowers the untaken arm before the taken one
expr_if_trivial_both_arms(b, cond, hyp, truth, cases, dest) ==
  Bind(as_temp(b, cond), LAMBDA c :
  Bind(IF hyp = << >> THEN c.b
       ELSE witness_stmt(c.b, IF truth THEN hyp[1] ELSE hyp[2]), LAMBDA b1 :
    expr(expr(b1, IF truth THEN cases[2] ELSE cases[1], dest).b,
         IF truth THEN cases[1] ELSE cases[2], dest)))

\* BuildMir::expr_if with trivial = Some(truth): the condition is stored to a
\* temporary, the hypothesis of the taken arm (when named) is bound to itrue,
\* and the taken arm is lowered in place with the caller's destination
expr_if_trivial(b, cond, hyp, truth, cases, dest) ==
  Bind(as_temp(b, cond), LAMBDA c :
    expr(IF hyp = << >> THEN c.b
         ELSE witness_stmt(c.b, IF truth THEN hyp[1] ELSE hyp[2]),
         IF truth THEN cases[1] ELSE cases[2], dest))

(* ------------------------------------------------------------------ *)
(* Labels: jumps, breaks, returns and calls                            *)
(* ------------------------------------------------------------------ *)
\* LabelGroupData {jumps, brk}: jumps = Some(((gen_, muts), labs)) with
\* labs[i] = (bl, args), and brk = Some((JoinBlock, dest))
NoJumps == [has |-> FALSE, gen |-> ROOT, muts |-> << >>, labs |-> << >>]
SomeJumps(gen_, muts, labs) == [has |-> TRUE, gen |-> gen_, muts |-> muts, labs |-> labs]
NoBrk == [has |-> FALSE, jb |-> JoinBlock(ENTRY, ROOT, << >>), dest |-> NoDest]
SomeBrk(jb, dest) == [has |-> TRUE, jb |-> jb, dest |-> dest]
LabelData(bl, args) == [bl |-> bl, args |-> args]

\* self.labels.push((name, LabelGroupData {jumps, brk})); id is history: the
\* serial number of the entry
labels_push(b, name, jumps, brk) ==
  [b EXCEPT !.labels = Append(@, [name |-> name, jumps |-> jumps, brk |-> brk, id |-> b.nlabels]),
            !.nlabels = @ + 1]

\* a lookup that takes the first entry pushed for the name
find_first(labels, lab) ==
  LET hits == {i \in 1 .. Len(labels) : labels[i].name = lab}
  IN IF hits = {} THEN 0 ELSE CHOOSE i \in hits : \A j \in hits : i <= j

\* self.labels.iter().rfind(|p| p.0 == lab): the index of the last entry
\* pushed for the name, 0 when there is none
rfind(labels, lab) ==
  LET hits == {i \in 1 .. Len(labels) : labels[i].name = lab}
  IN IF hits = {} THEN 0 ELSE CHOOSE i \in hits : \A j \in hits : j <= i

\* the Operand BuildMir::operand returns: a constant or the place read
operand_of(o) == IF o.uses = {} THEN ConstOperand ELSE CHOOSE u \in o.uses : TRUE

\* args.iter().zip(es).map(|(&(v, r), e)| (v, r, operand(e))): one argument per
\* pair, as long as both the parameters and the expressions last
RECURSIVE jump_args(_, _, _, _)
jump_args(b, params, es, acc) ==
  IF params = << >> \/ es = << >> THEN [b |-> b, args |-> acc]
  ELSE Bind(operand(b, Head(es)), LAMBDA o :
         jump_args(o.b, Tail(params), Tail(es),
                   Append(acc, [to |-> Head(params).v, rel |-> Head(params).rel,
                                from |-> operand_of(o)])))

\* BuildMir::expr for ExprKind::Jump(lab, i, es, None)
expr_jump(b, lab, i, es) ==
  Bind(rfind(b.labels, lab), LAMBDA n :
    IF n = 0 \/ ~b.labels[n].jumps.has THEN [b EXCEPT !.panicked = TRUE]
    ELSE Bind(b.labels[n].jumps, LAMBDA jp :
         Bind(jump_args(b, jp.labs[i].args, es, << >>), LAMBDA a :
           join(a.b, JoinBlock(jp.labs[i].bl, jp.gen, jp.muts), a.args))))

\* BuildMir::expr for ExprKind::Break(lab, e), e an operand expression
expr_break(b, lab, e) ==
  Bind(rfind(b.labels, lab), LAMBDA n :
    IF n = 0 \/ ~b.labels[n].brk.has THEN [b EXCEPT !.panicked = TRUE]
    ELSE Bind(b.labels[n].brk, LAMBDA brk :
           IF brk.dest.k = "None" THEN join(expr(b, e, NoDest).b, brk.jb, << >>)
           ELSE Bind(operand(b, e), LAMBDA o :
                  join(o.b, brk.jb, <<[to |-> brk.dest.v, rel |-> TRUE, from |-> operand_of(o)]>>))))

\* es.zip(args).map(|(e, &(v, r))| (v, r, expr_place(e))) of expr_return
RECURSIVE return_args(_, _, _, _)
return_args(b, es, places, acc) ==
  IF places = << >> \/ es = << >> THEN [b |-> b, args |-> acc]
  ELSE Bind(expr_place(b, Head(es), b.tr.cur_gen), LAMBDA p :
         return_args(p.b, Tail(es), Tail(places),
                     Append(acc, [to |-> Head(places).v, rel |-> Head(places).rel,
                                  from |-> p.val])))

\* BuildMir::expr_return for ExprKind::Return(es), es variable reads
expr_return(b, es) ==
  IF ~b.returns.has THEN [b EXCEPT !.panicked = TRUE]
  ELSE Bind(return_args(b, es, b.returns.args, << >>), LAMBDA a :
         terminate(a.b, a.b.cur_block, TermReturn(b.returns.outs, a.args)))

\* dest.iter().zip(argtys) of expr_call: a fresh identifier (PreVar::Fresh)
\* enters the context for each pair of a destination and a callee return
RECURSIVE call_rets(_, _, _, _)
call_rets(b, n, m, acc) ==
  IF n = 0 \/ m = 0 THEN [b |-> b, rets |-> acc]
  ELSE Bind(fresh_var(b.tr), LAMBDA f :
         call_rets(extend_ctx([b EXCEPT !.tr = f.t], f.val, TRUE), n - 1, m - 1,
                   Append(acc, [v |-> f.val, rel |-> TRUE])))

\* BuildMir::expr_call for a call without arguments of ReturnKind::Struct(n),
\* as a statement, to a callee whose return type is a struct of m members
expr_call(b, n, m, gen_) ==
  Bind(b.cur_ctx, LAMBDA base_ctx :
  Bind(call_rets([b EXCEPT !.tr = [try_add_gen(@, @.cur_gen, gen_) EXCEPT !.cur_gen = gen_]],
                 n, m, << >>), LAMBDA r :
  Bind(new_block(r.b, ctxs_len(b.cfg, base_ctx)), LAMBDA bl :
    [terminate(bl.b, bl.b.cur_block, TermCall(base_ctx, bl.id, r.rets))
       EXCEPT !.cur_block = bl.id])))

\* dest.iter().zip(argtys) of expr_call for the destinations dest: each
\* destination is resolved and enters the context
RECURSIVE call_rets_dest(_, _, _, _)
call_rets_dest(b, dest, m, acc) ==
  IF dest = << >> \/ m = 0 THEN [b |-> b, rets |-> acc]
  ELSE Bind(tr_prevar(b, Head(dest), b.tr.cur_gen), LAMBDA d :
         call_rets_dest(extend_ctx(d.b, d.val, TRUE), Tail(dest), m - 1,
                        Append(acc, [v |-> d.val, rel |-> TRUE])))

\* BuildMir::expr_call for a call without arguments of ReturnKind::Struct(n)
\* with the n destinations dest, to a callee whose return type is a struct of
\* m members
expr_call_dest(b, dest, m, gen_) ==
  Bind(b.cur_ctx, LAMBDA base_ctx :
  Bind(call_rets_dest([b EXCEPT !.tr = [try_add_gen(@, @.cur_gen, gen_) EXCEPT !.cur_gen = gen_]],
                      dest, m, << >>), LAMBDA r :
  Bind(new_block(r.b, ctxs_len(b.cfg, base_ctx)), LAMBDA bl :
    [terminate(bl.b, bl.b.cur_block, TermCall(base_ctx, bl.id, r.rets))
       EXCEPT !.cur_block = bl.id])))

\* n fresh identifiers: (0..n).map(|_| PreVar::Ok(self.fresh_var()))
RECURSIVE fresh_dests(_, _, _)
fresh_dests(t, n, acc) ==
  IF n = 0 THEN [t |-> t, dest |-> acc]
  ELSE Bind(fresh_var(t), LAMBDA f : fresh_dests(f.t, n - 1, Append(acc, PreOk(f.val))))

\* BuildMir::rvalue for a call of ReturnKind::Struct(n): the call returns
\* into n fresh identifiers, and the value is the list of them
rvalue_call(b, n, m, gen_) ==
  Bind(fresh_dests(b.tr, n, << >>), LAMBDA f :
    [b |-> expr_call_dest([b EXCEPT !.tr = f.t], f.dest, m, gen_),
     vs |-> [i \in 1 .. n |-> f.dest[i].v]])

\* BuildMir::expr with destination dest for a call of ReturnKind::Struct(n):
\* dest := list of the values returned
expr_dest_call(b, dest, n, m, gen_) ==
  Bind(rvalue_call(b, n, m, gen_), LAMBDA rv :
  Bind(tr_prevar(rv.b, dest, rv.b.tr.cur_gen), LAMBDA d :
    push_stmt(d.b, StmtLetList(d.val, TRUE, rv.vs))))

\* tup_pat for each of the name patterns pats
RECURSIVE tup_pats(_, _)
tup_pats(b, pats) ==
  IF pats = << >> THEN b ELSE tup_pats(tup_pat(b, Head(pats)), Tail(pats))

\* tuple patterns: a name, or a tuple of name patterns
PatName(v) == [k |-> "Name", var |-> v, pats |-> << >>]
PatTuple(v, pats) == [k |-> "Tuple", var |-> v, pats |-> pats]

\* a let_stmt that binds every call through the list of its values
let_stmt_call_list(b, lhs, n, m, gen_) ==
  tup_pats(tup_pat(expr_dest_call(b, PrePre(lhs.var), n, m, gen_), lhs.var), lhs.pats)

\* BuildMir::let_stmt(global = false) for a right hand side that is a call of
\* ReturnKind::Struct(n): a tuple pattern of n name patterns gives the call
\* its destinations; a name pattern is bound to the value of the call
let_stmt_call(b, lhs, n, m, gen_) ==
  IF lhs.k = "Tuple" /\ Len(lhs.pats) = n
  THEN tup_pats(expr_call_dest(b, [i \in 1 .. n |-> PrePre(lhs.pats[i])], m, gen_), lhs.pats)
  ELSE tup_pat(expr_dest_call(b, PrePre(lhs.var), n, m, gen_), lhs.var)

(* ------------------------------------------------------------------ *)
(* Blocks with labels                                                  *)
(* ------------------------------------------------------------------ *)
\* for _ in self.labels.len()..reset.0 { stmts.push(Statement::PopLabelGroup) }
RECURSIVE pop_label_groups(_, _)
pop_label_groups(b, n) ==
  IF n <= 0 THEN b
  ELSE pop_label_groups([b EXCEPT !.cfg.blocks[b.cur_block + 1].stmts = Append(@, StmtPopLabelGroup)],
                        n - 1)

\* BuildMir::rvalue_block after its statements returned res: the labels and
\* the block-tree groups opened inside the block are dropped
rvalue_block_exit(b, reset, res) ==
  Bind(IF res = "Ok" THEN pop_label_groups(b, reset[1] - Len(b.labels)) ELSE b, LAMBDA b1 :
    tree_truncate([b1 EXCEPT !.labels = SubSeq(@, 1, IF Len(@) < reset[1] THEN Len(@) ELSE reset[1])],
                  reset[2]))

\* BuildMir::rvalue_block for a block expression that has a Label statement,
\* up to the point where its statements are lowered
lblock_begin(b, gen_, muts, sc) ==
  Bind([b EXCEPT !.tr = try_add_gen(@, @.cur_gen, gen_)], LAMBDA b1 :
  Bind(fresh_var(b1.tr), LAMBDA v :
  Bind(extend_ctx([b1 EXCEPT !.tr = v.t], v.val, TRUE), LAMBDA b2 :
  Bind(dominated_block(b2, b.cur_ctx), LAMBDA j :
    [b |-> [j.b EXCEPT !.cur_ctx = b.cur_ctx,
                       !.lblocks = Append(@,
                         [join |-> j.id, gen |-> gen_, after_ctx |-> b2.cur_ctx, pre |-> b.cur_block,
                          blocks0 |-> Len(b.cfg.blocks), blocks1 |-> Len(j.b.cfg.blocks),
                          ids |-> << >>, ended |-> FALSE, res |-> "none", fell |-> 0,
                          after |-> <<0, 0, 0>>,
                          depth0 |-> <<Len(b.labels), Len(b.groups)>>, depth1 |-> <<0, 0>>,
                          opened |-> 0, pops |-> 0])],
     frame |-> [kind |-> "lblock", reset |-> <<Len(b.labels), Len(b.groups)>>,
                join |-> JoinBlock(j.id, gen_, muts), dest |-> PreOk(v.val),
                after_ctx |-> b2.cur_ctx, gen |-> gen_, scope |-> sc,
                base_ctx |-> b.cur_ctx, blk |-> b.cur_block, label_ids |-> << >>,
                idx |-> Len(b.lblocks) + 1]]))))

\* an end of a block with labels whose fall-through tail gets a join block of
\* its own instead of the one the breaks go to
lblock_end_own_join(b, f, res) ==
  Bind(tree_push(rvalue_block_exit(b, f.reset, res), f.join.tgt), LAMBDA b1 :
  Bind(IF res = "Ok" THEN dominated_block(b1, f.base_ctx) ELSE [b |-> b1, id |-> f.join.tgt], LAMBDA own :
  Bind(IF res = "Ok"
       THEN join(own.b, JoinBlock(own.id, f.join.gen, f.join.muts),
                 <<[to |-> f.dest.v, rel |-> TRUE, from |-> ConstOperand]>>)
       ELSE own.b, LAMBDA b2 :
  Bind(set(b2, <<own.id, f.after_ctx, f.gen>>), LAMBDA b3 :
    [b3 EXCEPT !.lblocks[f.idx] =
       [@ EXCEPT !.ids = f.label_ids, !.ended = TRUE, !.res = res,
                 !.fell = IF res = "Ok" THEN Len(b2.jumps) ELSE 0, !.after = cur(b3),
                 !.depth1 = <<Len(b3.labels), Len(b3.groups)>>]]))))

\* the rest of rvalue_block for the block of frame f, whose statements and
\* tail expression (unit) returned res
lblock_end(b, f, res) ==
  Bind(tree_push(rvalue_block_exit(b, f.reset, res), f.join.tgt), LAMBDA b1 :
  Bind(IF res = "Ok"
       THEN join(b1, f.join, <<[to |-> f.dest.v, rel |-> TRUE, from |-> ConstOperand]>>)
       ELSE b1, LAMBDA b2 :
  Bind(set(b2, <<f.join.tgt, f.after_ctx, f.gen>>), LAMBDA b3 :
    [b3 EXCEPT !.lblocks[f.idx] =
       [@ EXCEPT !.ids = f.label_ids, !.ended = TRUE, !.res = res,
                 !.fell = IF res = "Ok" THEN Len(b2.jumps) ELSE 0, !.after = cur(b3),
                 !.depth1 = <<Len(b3.labels), Len(b3.groups)>>,
                 !.opened = Len(b.groups) - f.reset[2],
                 !.pops = Len(Blk(b1.cfg, b.cur_block).stmts) - Len(Blk(b.cfg, b.cur_block).stmts)]])))

\* the (identifier, relevance) pairs push_args returns for the parameters args
RECURSIVE label_args(_, _, _)
label_args(t, args, gen_) ==
  IF args = << >> THEN << >>
  ELSE <<[v |-> tr_var(t, Head(args), gen_).val, rel |-> TRUE]>> \o label_args(t, Tail(args), gen_)

\* BuildMir::stmt for StmtKind::Label(v, false, _) inside the block of frame f
stmt_label_no_jump(b, f, v) == labels_push(b, v, NoJumps, SomeBrk(f.join, f.dest))

\* BuildMir::stmt for StmtKind::Label(v, true, [lab]) inside the block of
\* frame f, up to the point where the statements of the body of lab are lowered
stmt_label(b, f, v, args, body_gen, sc) ==
  Bind(cur(b), LAMBDA base :
  Bind(push_args(b, args), LAMBDA p :
  Bind([p.b EXCEPT !.cur_ctx = base[2],
                   !.cfg.blocks[base[1] + 1].stmts = Append(@, StmtLabelGroup(<<p.id>>, base[2]))],
       LAMBDA b1 :
  Bind(labels_push(tree_push_group(b1, <<p.id>>), v,
                   SomeJumps(base[3], f.join.muts,
                             <<LabelData(p.id, label_args(b1.tr, args, b1.tr.cur_gen))>>),
                   SomeBrk(f.join, f.dest)), LAMBDA b2 :
  Bind(tree_push(set(b2, <<p.id, Blk(b2.cfg, p.id).ctx, base[3]>>), p.id), LAMBDA b3 :
    [b |-> rvalue_block_enter(b3, body_gen),
     frame |-> [kind |-> "label", base |-> base, brk |-> f.join, dest |-> f.dest,
                reset |-> <<Len(b3.labels), Len(b3.groups)>>, scope |-> sc,
                bl |-> p.id]])))))

\* an end of a label body that does not jump to the join block of the
\* enclosing block when the body falls through
label_end_unjoined(b, f, res) ==
  Bind(rvalue_block_exit(b, f.reset, res), LAMBDA b1 :
    set(IF res = "Ok" THEN expr_dest(b1, Const, f.dest) ELSE b1, f.base))

\* the rest of stmt for the label body of frame f, whose block (with a
\* constant as tail expression) returned res
label_end(b, f, res) ==
  Bind(rvalue_block_exit(b, f.reset, res), LAMBDA b1 :
    set(IF res = "Ok"
        THEN join(expr_dest(b1, Const, f.dest), f.brk,
                  <<[to |-> f.dest.v, rel |-> TRUE, from |-> f.dest.v]>>)
        ELSE b1, f.base))

(* ------------------------------------------------------------------ *)
(* rvalue_while                                                        *)
(* ------------------------------------------------------------------ *)
\* the test of a proper while loop: v_cond := cond, the If on it, and the
\* false branch, which jumps to the break join block when there is one
while_test(b, cond, brk) ==
  Bind(as_temp(b, cond), LAMBDA c :
  Bind(fresh_var(c.b.tr), LAMBDA vh :
  Bind([c.b EXCEPT !.tr = vh.t], LAMBDA b1 :
  Bind(cur(b1), LAMBDA test :
  Bind(ctxs_len(b1.cfg, test[2]), LAMBDA cur_len :
  Bind(ctxs_extend(b1.cfg, test[2], vh.val, FALSE), LAMBDA tc :
  Bind(cfg_new_block(tc.cfg, tc.id, cur_len), LAMBDA tb :
  Bind(ctxs_extend(tb.cfg, test[2], vh.val, FALSE), LAMBDA fc :
  Bind(cfg_new_block(fc.cfg, fc.id, cur_len), LAMBDA fb :
  Bind(terminate([b1 EXCEPT !.cfg = fb.cfg], b1.cur_block,
                 TermIf(test[2], c.val, vh.val, tb.id, vh.val, fb.id)), LAMBDA b2 :
  Bind(IF brk.has THEN join(set(b2, <<fb.id, fc.id, test[3]>>), brk.jb, << >>)
       ELSE [b2 EXCEPT !.cfg.blocks[fb.id + 1].stmts = Append(@, StmtPopLabelGroup)], LAMBDA b3 :
    [b |-> set(b3, <<tb.id, tc.id, test[3]>>),
     exit |-> IF brk.has THEN Err ELSE Ok(<<fb.id, fc.id, test[3]>>)])))))))))))

\* the label group of the loop head hd is opened in the current block, which
\* then jumps to hd
while_open(b, hd, base_ctx) ==
  Bind(tree_push(tree_push_group(
         [b EXCEPT !.cfg.blocks[b.cur_block + 1].stmts = Append(@, StmtLabelGroup(<<hd>>, base_ctx))],
         <<hd>>), hd), LAMBDA b1 :
    [terminate(b1, b1.cur_block, TermJump(hd, << >>)) EXCEPT !.cur_block = hd])

\* a loop entry that allocates the break join block after the jump to the head
while_enter_late_join(b, has_break, gen_, muts) ==
  Bind(b.cur_ctx, LAMBDA base_ctx :
  Bind(new_block(b, ctxs_len(b.cfg, base_ctx)), LAMBDA hd :
  Bind(while_open(hd.b, hd.id, base_ctx), LAMBDA b1 :
  Bind(IF has_break THEN dominated_block(b1, base_ctx) ELSE [b |-> b1, id |-> ENTRY], LAMBDA af :
    [b |-> af.b, hd |-> hd.id,
     brk |-> IF has_break THEN SomeBrk(JoinBlock(af.id, gen_, muts), NoDest) ELSE NoBrk]))))

\* BuildMir::rvalue_while from the allocation of the loop head to the jump to
\* it: the head, the break join block when the loop has a break, the label
\* group, the jump
while_enter(b, has_break, gen_, muts) ==
  Bind(b.cur_ctx, LAMBDA base_ctx :
  Bind(new_block(b, ctxs_len(b.cfg, base_ctx)), LAMBDA hd :
  Bind(IF has_break THEN dominated_block(hd.b, base_ctx) ELSE [b |-> hd.b, id |-> ENTRY], LAMBDA af :
    [b |-> while_open(af.b, hd.id, base_ctx), hd |-> hd.id,
     brk |-> IF has_break THEN SomeBrk(JoinBlock(af.id, gen_, muts), NoDest) ELSE NoBrk])))

\* BuildMir::rvalue_while with trivial = None (trivial = FALSE) or Some(true),
\* without hypothesis name, up to the point where the statements of the body
\* (a block of generation body_gen) are lowered
while_begin(b, label, has_break, trivial, cond, gen_, muts, body_gen, sc) ==
  Bind(while_enter(b, has_break, gen_, muts), LAMBDA e :
  Bind(e.b.tr.cur_gen, LAMBDA base_gen :
  Bind(labels_push([e.b EXCEPT !.tr = try_add_gen(@, base_gen, gen_)], label,
                   SomeJumps(base_gen, muts, <<LabelData(e.hd, << >>)>>), e.brk), LAMBDA b1 :
  Bind(IF trivial THEN [b |-> expr(b1, cond, NoDest).b, exit |-> Err]
       ELSE while_test(b1, cond, e.brk), LAMBDA t :
    [b |-> [rvalue_block_enter(t.b, body_gen) EXCEPT !.whiles = Append(@,
              [label |-> label, trivial |-> trivial, has_break |-> has_break, pre |-> b.cur_block,
               base_bl |-> e.hd, base_ctx |-> b.cur_ctx, base_gen |-> base_gen, gen |-> gen_,
               muts |-> muts, brk |-> e.brk, ended |-> FALSE, body |-> "none", res |-> "none",
               back |-> 0, after |-> <<0, 0, 0>>,
               depth0 |-> <<Len(b.labels), Len(b.groups)>>, depth1 |-> <<0, 0>>])],
     frame |-> [kind |-> "while", base_bl |-> e.hd, base_ctx |-> b.cur_ctx, base_gen |-> base_gen,
                muts |-> muts, exit |-> t.exit, scope |-> sc, idx |-> Len(b.whiles) + 1,
                reset |-> <<Len(t.b.labels), Len(t.b.groups)>>, label_ids |-> <<e.b.nlabels>>]]))))

\* a result of rvalue_while that leaves the label group of the loop open
while_exit_open_group(b, f) ==
  Bind(b, LAMBDA b1 :
    IF b1.labels = << >> THEN [b |-> [b1 EXCEPT !.panicked = TRUE], res |-> "Err"]
    ELSE Bind(b1.labels[Len(b1.labels)].brk, LAMBDA brk :
         Bind([b1 EXCEPT !.labels = SubSeq(@, 1, Len(@) - 1)], LAMBDA b2 :
           IF brk.has
           THEN [b |-> set(tree_push(b2, brk.jb.tgt), <<brk.jb.tgt, f.base_ctx, brk.jb.gen>>),
                 res |-> "Ok"]
           ELSE IF f.exit.ok
           THEN [b |-> set(tree_push(b2, f.exit.pos[1]), f.exit.pos), res |-> "Ok"]
           ELSE [b |-> b2, res |-> "Err"])))

\* the result of rvalue_while once the loop closure returned: the label group
\* and the label are popped, and lowering continues at the break join block,
\* else at the false branch of the test when it was reached
while_exit(b, f) ==
  Bind(tree_pop(b), LAMBDA b1 :
    IF b1.labels = << >> THEN [b |-> [b1 EXCEPT !.panicked = TRUE], res |-> "Err"]
    ELSE Bind(b1.labels[Len(b1.labels)].brk, LAMBDA brk :
         Bind([b1 EXCEPT !.labels = SubSeq(@, 1, Len(@) - 1)], LAMBDA b2 :
           IF brk.has
           THEN [b |-> set(tree_push(b2, brk.jb.tgt), <<brk.jb.tgt, f.base_ctx, brk.jb.gen>>),
                 res |-> "Ok"]
           ELSE IF f.exit.ok
           THEN [b |-> set(tree_push(b2, f.exit.pos[1]), f.exit.pos), res |-> "Ok"]
           ELSE [b |-> b2, res |-> "Err"])))

\* a rest of rvalue_while that emits the back-edge whatever VERIFY_TERMINATION is
while_end_no_check(b, f, res) ==
  Bind(rvalue_block_exit(b, f.reset, res), LAMBDA b0 :
  Bind(IF res = "Ok" THEN join(b0, JoinBlock(f.base_bl, f.base_gen, f.muts), << >>) ELSE b0,
       LAMBDA b1 :
  Bind(while_exit(b1, f), LAMBDA r :
    [b |-> [r.b EXCEPT !.whiles[f.idx] =
              [@ EXCEPT !.ended = TRUE, !.body = res, !.res = r.res,
                        !.back = IF res = "Ok" THEN Len(b1.jumps) ELSE 0,
                        !.after = cur(r.b),
                        !.depth1 = <<Len(r.b.labels), Len(r.b.groups)>>]],
     res |-> r.res])))

\* BuildMir::rvalue_while for trivial = Some(false): only the condition is lowered
while_trivial_false(b, cond) == expr(b, cond, NoDest).b

\* the rest of rvalue_while for the loop of frame f, whose body returned res:
\* a body that falls through jumps back to the loop head, unless
\* crate::proof::VERIFY_TERMINATION is set: then lowering panics (res "Panic")
while_end(b, f, res) ==
  Bind(rvalue_block_exit(b, f.reset, res), LAMBDA b0 :
  IF res = "Ok" /\ b0.verify_termination
  THEN [b |-> [b0 EXCEPT !.panicked = TRUE], res |-> "Panic"]
  ELSE
  Bind(IF res = "Ok" THEN join(b0, JoinBlock(f.base_bl, f.base_gen, f.muts), << >>) ELSE b0,
       LAMBDA b1 :
  Bind(while_exit(b1, f), LAMBDA r :
    [b |-> [r.b EXCEPT !.whiles[f.idx] =
              [@ EXCEPT !.ended = TRUE, !.body = res, !.res = r.res,
                        !.back = IF res = "Ok" THEN Len(b1.jumps) ELSE 0,
                        !.after = cur(r.b),
                        !.depth1 = <<Len(r.b.labels), Len(r.b.groups)>>]],
     res |-> r.res])))

(* ------------------------------------------------------------------ *)
(* The constructs in progress                                          *)
(* ------------------------------------------------------------------ *)
\* a build_item that registers the procedure whatever the body returned
build_item_end_any(b, res) == [b |-> build_proc_exit(b), status |-> "done"]

\* build_item for ItemKind::Proc once self.block(body) returned res
build_item_end(b, res) ==
  IF res = "Err" THEN [b |-> build_proc_exit(b), status |-> "done"]
  ELSE [b |-> [b EXCEPT !.panicked = TRUE], status |-> "aborted"]

\* the lowering of the innermost construct in progress returned res: the
\* construct is completed, and so are the enclosing ones as long as the
\* completed construct diverged
RECURSIVE unwind(_, _, _, _)
unwind(b, stk, res, sc) ==
  IF stk = << >>
  THEN Bind(build_item_end(b, res), LAMBDA r :
         [b |-> r.b, stack |-> stk, status |-> r.status, scope |-> sc, body |-> res])
  ELSE
    LET f == stk[Len(stk)]
        rest == SubSeq(stk, 1, Len(stk) - 1)
    IN
    IF f.kind = "if" /\ f.phase = "tru"
    THEN Bind(expr_if_else(b, f, res, FreshGen(b)), LAMBDA r :
           [b |-> r.b, stack |-> [stk EXCEPT ![Len(stk)] = r.frame], status |-> "body",
            scope |-> f.scope, body |-> "none"])
    ELSE IF f.kind = "if"
    THEN Bind(expr_if_end(b, f, res), LAMBDA r :
           IF r.res = "Err" THEN unwind(r.b, rest, "Err", f.scope)
           ELSE [b |-> IF f.dest.k = "Pre" THEN tup_pat(r.b, f.dest.h) ELSE r.b,
                 stack |-> rest, status |-> "body",
                 scope |-> IF f.dest.k = "Pre" THEN f.scope \cup {f.dest.h} ELSE f.scope,
                 body |-> "none"])
    ELSE IF f.kind = "while"
    THEN Bind(while_end(b, f, res), LAMBDA r :
           IF r.res = "Err" THEN unwind(r.b, rest, "Err", f.scope)
           ELSE IF r.res = "Panic"
           THEN [b |-> r.b, stack |-> stk, status |-> "aborted", scope |-> sc, body |-> "none"]
           ELSE [b |-> r.b, stack |-> rest, status |-> "body", scope |-> f.scope,
                 body |-> "none"])
    ELSE IF f.kind = "label"
    THEN [b |-> label_end(b, f, res), stack |-> rest, status |-> "body", scope |-> f.scope,
          body |-> "none"]
    ELSE [b |-> lblock_end(b, f, res), stack |-> rest, status |-> "body", scope |-> f.scope,
          body |-> "none"]

NoCall == [op |-> "none"]

Init ==
  /\ bm = NewBuildMir
  /\ last = NoCall
  /\ ncalls = 0
  /\ stack = << >>
  /\ status = "new"
  /\ scope = {}
  /\ used = {}
  /\ unit = NewUnit

(* ------------------------------------------------------------------ *)
(* The Translator driven call by call (specification SpecTr)           *)
(* ------------------------------------------------------------------ *)
Registered == DOMAIN bm.tr.gen_vars
AllocatedIds == 0 .. (bm.tr.next_var - 1)
\* the generation identifier type inference hands out next
NextGen == CHOOSE g \in GenIds \cup {MaxGen + 1} :
             /\ g \notin Registered
             /\ \A h \in GenIds : h < g => h \in Registered

\* a call tr_var(v, g) on a registered generation
TrVarCall(v, g) ==
  /\ status = "new"
  /\ ncalls < MaxCalls
  /\ g \in Registered
  /\ LET r == tr_var(bm.tr, v, g) IN
     /\ bm' = [bm EXCEPT !.tr = r.t]
     /\ last' = [op |-> "tr_var", v |-> v, g |-> g, val |-> r.val,
                 cached |-> Has(bm.tr.gen_vars[g].cache, v),
                 pre_next |-> bm.tr.next_var]
  /\ ncalls' = ncalls + 1
  /\ UNCHANGED lowering

\* a call location(v)
LocationCall(v) ==
  /\ status = "new"
  /\ ncalls < MaxCalls
  /\ LET r == location(bm.tr, v) IN
     /\ bm' = [bm EXCEPT !.tr = r.t]
     /\ last' = [op |-> "location", v |-> v, val |-> r.val, pre_next |-> bm.tr.next_var]
  /\ ncalls' = ncalls + 1
  /\ UNCHANGED lowering

\* a call add_gen(dom, NextGen, {old |-> id}) with a fresh generation identifier;
\* the rebinding value is an identifier already handed out
AddGenCall(dom, old, id) ==
  /\ status = "new"
  /\ ncalls < MaxCalls
  /\ dom \in Registered
  /\ NextGen \in GenIds
  /\ id \in AllocatedIds
  /\ bm' = [bm EXCEPT !.tr = add_gen(@, dom, NextGen, Put(EmptyMap, old, id))]
  /\ last' = [op |-> "add_gen", g |-> NextGen]
  /\ ncalls' = ncalls + 1
  /\ UNCHANGED lowering

\* a call try_add_gen(dom, g), g fresh or already registered
TryAddGenCall(dom, g) ==
  /\ status = "new"
  /\ ncalls < MaxCalls
  /\ dom \in Registered
  /\ g \in Registered \cup ({NextGen} \cap GenIds)
  /\ bm' = [bm EXCEPT !.tr = try_add_gen(@, dom, g)]
  /\ last' = [op |-> "try_add_gen", g |-> g]
  /\ ncalls' = ncalls + 1
  /\ UNCHANGED lowering

\* a call add_gen(dom, g, {old |-> id}) for a generation g that is registered
\* already: the entry is replaced and the assertion on the result of insert
\* fails, which ends the lowering
AddGenPresentCall(dom, g, old, id) ==
  /\ status = "new"
  /\ ncalls < MaxCalls
  /\ dom \in Registered
  /\ g \in Registered
  /\ add_gen_panics(bm.tr, g)
  /\ id \in AllocatedIds
  /\ bm' = [bm EXCEPT !.tr = add_gen(@, dom, g, Put(EmptyMap, old, id)), !.panicked = TRUE]
  /\ status' = "aborted"
  /\ last' = [op |-> "add_gen", g |-> g]
  /\ ncalls' = ncalls + 1
  /\ UNCHANGED <<stack, scope, used, unit>>

NextTr ==
  \/ \E v \in TrHVars, g \in GenIds : TrVarCall(v, g)
  \/ \E v \in TrHVars : LocationCall(v)
  \/ \E dom \in GenIds, old \in TrHVars, id \in 0 .. MaxCalls : AddGenCall(dom, old, id)
  \/ \E dom \in GenIds, g \in GenIds : TryAddGenCall(dom, g)

SpecTr == Init /\ [][NextTr]_vars

\* the Translator driven call by call, add_gen for registered generations too
\* (specification SpecGen)
NextGenTable ==
  \/ \E v \in TrHVars, g \in GenIds : TrVarCall(v, g)
  \/ \E v \in TrHVars : LocationCall(v)
  \/ \E dom \in GenIds, old \in TrHVars, id \in 0 .. MaxCalls : AddGenCall(dom, old, id)
  \/ \E dom \in GenIds, g \in GenIds, old \in TrHVars, id \in 0 .. MaxCalls :
       AddGenPresentCall(dom, g, old, id)
  \/ \E dom \in GenIds, g \in GenIds : TryAddGenCall(dom, g)

SpecGen == Init /\ [][NextGenTable]_vars

(* ------------------------------------------------------------------ *)
(* Translation of types with patterns (specification SpecMemo)         *)
(* ------------------------------------------------------------------ *)
\* the expressions and types of the HIR being translated
ExprX == ExprVar("ex", "x")
TyU == TyUnit("unit")
TyP == TyPure("pure", ExprX)
\* (all (p: unit) (pure x)): a name pattern
TyAllName == TyAll("all_name", TPatName("p", TyU), TyP)
\* (all ((q r): unit) (pure x)): a tuple pattern
TyAllTuple == TyAll("all_tuple", TPatTuple("q", "Struct", <<TPatName("r", TyU)>>, TyU), TyP)
\* (all ((s): unit) (all ((q r): unit) (pure x))): nested tuple patterns
TyAllNested == TyAll("all_nested", TPatTuple("s", "Unit", << >>, TyU), TyAllTuple)
\* (struct (a: unit) ((b c): pure x) (d := x) (e: pure x))
TyS == TyStruct("struct", <<ArgLam(TPatName("a", TyU)),
                           ArgLam(TPatTuple("b", "Struct", <<TPatName("c", TyU)>>, TyP)),
                           ArgLet(TPatName("d", TyU), ExprX),
                           ArgLam(TPatName("e", TyP))>>)
TyNodes == {TyU, TyP, TyAllName, TyAllTuple, TyAllNested, TyS}

\* the translator with the history of the previous call cleared
Unlogged(t) == [t EXCEPT !.trlog = << >>, !.memo_reads = 0]

\* a call tr_gen(ty, g) for a type of the HIR, in a registered generation
TrTyCall(n, g) ==
  /\ status = "new"
  /\ ncalls < MaxCalls
  /\ g \in Registered
  /\ LET r == tr_gen_ty(Unlogged(bm.tr), n, g) IN
     /\ bm' = [bm EXCEPT !.tr = Unlogged(r.t)]
     /\ last' = [op |-> "tr_ty", id |-> n.id, g |-> g, log |-> r.t.trlog, val |-> r.val]
  /\ ncalls' = ncalls + 1
  /\ UNCHANGED lowering

\* a call tr_gen(e, g) for an expression or a place of the HIR
TrExprCall(e, tab, g) ==
  /\ status = "new"
  /\ ncalls < MaxCalls
  /\ g \in Registered
  /\ LET r == tr_gen_expr(Unlogged(bm.tr), tab, e, g) IN
     /\ bm' = [bm EXCEPT !.tr = Unlogged(r.t)]
     /\ last' = [op |-> "tr_expr", id |-> e.id, g |-> g, log |-> r.t.trlog, val |-> r.val]
  /\ ncalls' = ncalls + 1
  /\ UNCHANGED lowering

NextMemo ==
  \/ \E n \in TyNodes, g \in GenIds : TrTyCall(n, g)
  \/ \E tab \in {"exprs", "places"}, g \in GenIds : TrExprCall(ExprX, tab, g)
  \/ \E dom \in GenIds, g \in GenIds : TryAddGenCall(dom, g)

SpecMemo == Init /\ [][NextMemo]_vars

(* ------------------------------------------------------------------ *)
(* Lowering one procedure, construct by construct (specification Spec) *)
(* ------------------------------------------------------------------ *)
\* the order in which type inference hands out source variables
HVarSeq == <<"x", "y", "z">>
NewHVar == HVarSeq[Cardinality(used) + 1]
HasNewHVar == Cardinality(used) < Len(HVarSeq)

\* the variables of S in the order of HVarSeq
SeqOf(S) == SelectSeq(HVarSeq, LAMBDA v : v \in S)

Operands == {Const} \cup scope

\* build_item is called for a procedure with arguments args and the
\* lowering of its body starts
StartProc(args) ==
  /\ status = "new"
  /\ bm = NewBuildMir
  /\ unit.items = << >>
  /\ bm' = build_proc_enter(bm, args, << >>)
  /\ status' = "body"
  /\ scope' = {args[i] : i \in 1 .. Len(args)}
  /\ used' = {args[i] : i \in 1 .. Len(args)}
  /\ last' = [op |-> "proc"]
  /\ UNCHANGED <<ncalls, stack, unit>>

\* StmtKind::Let {lhs: a new source variable, rhs: e}
LetStmt(e) ==
  /\ status = "body"
  /\ ncalls < MaxStmts
  /\ HasNewHVar
  /\ bm' = let_stmt(bm, NewHVar, e)
  /\ scope' = scope \cup {NewHVar}
  /\ used' = used \cup {NewHVar}
  /\ ncalls' = ncalls + 1
  /\ last' = [op |-> "let"]
  /\ UNCHANGED <<stack, status, unit>>

\* StmtKind::Expr(Assign {lhs: old, rhs: a constant, map: [(a new source
\* variable, old)]}) with a generation not yet registered
AssignStmt(old) ==
  /\ status = "body"
  /\ ncalls < MaxStmts
  /\ HasNewHVar
  /\ bm' = expr_assign(bm, old, NewHVar, Const, FreshGen(bm))
  /\ used' = used \cup {NewHVar}
  /\ ncalls' = ncalls + 1
  /\ last' = [op |-> "assign"]
  /\ UNCHANGED <<stack, status, scope, unit>>

\* an if is entered: as a statement (withDest = FALSE) or as the right hand side
\* of a let of a new source variable
IfBegin(muts, gen_, withDest) ==
  /\ status = "body"
  /\ ncalls < MaxStmts
  /\ Len(stack) < MaxDepth
  /\ Len(stack) + Len(bm.ifs) < MaxIfs
  /\ withDest => HasNewHVar
  /\ LET dest == IF withDest THEN PrePre(NewHVar) ELSE NoDest
         b1 == [bm EXCEPT !.tr = try_add_gen(@, @.cur_gen, gen_)]
         r  == expr_if_begin(bm, Const, gen_, muts, dest, FreshGen(b1), scope)
     IN /\ bm' = r.b
        /\ stack' = Append(stack, r.frame)
  /\ used' = IF withDest THEN used \cup {NewHVar} ELSE used
  /\ ncalls' = ncalls + 1
  /\ last' = [op |-> "if"]
  /\ UNCHANGED <<status, scope, unit>>

\* the lowering of the innermost open arm returned res; an if whose both arms
\* diverged makes the enclosing arm (or the body) diverge in turn
RECURSIVE arm_done(_, _, _, _)
arm_done(b, stk, res, sc) ==
  IF stk = << >>
  THEN [b |-> build_proc_exit(b), stack |-> stk, status |-> "done", scope |-> sc]
  ELSE
    LET f == stk[Len(stk)] IN
    IF f.phase = "tru"
    THEN Bind(expr_if_else(b, f, res, FreshGen(b)), LAMBDA r :
           [b |-> r.b, stack |-> [stk EXCEPT ![Len(stk)] = r.frame], status |-> "body",
            scope |-> f.scope])
    ELSE Bind(expr_if_end(b, f, res), LAMBDA r :
           IF r.res = "Err" THEN arm_done(r.b, SubSeq(stk, 1, Len(stk) - 1), "Err", f.scope)
           ELSE [b |-> IF f.dest.k = "Pre" THEN tup_pat(r.b, f.dest.h) ELSE r.b,
                 stack |-> SubSeq(stk, 1, Len(stk) - 1), status |-> "body",
                 scope |-> IF f.dest.k = "Pre" THEN f.scope \cup {f.dest.h} ELSE f.scope])

\* the block of the innermost open arm ends; its tail expression, a constant,
\* is stored to the destination of the if when there is one
ArmEnd ==
  /\ status = "body"
  /\ stack # << >>
  /\ LET f == stack[Len(stack)]
         b == IF f.trans.k = "None" THEN bm ELSE expr_dest(bm, Const, f.trans)
         r == arm_done(b, stack, "Ok", scope)
     IN /\ bm' = r.b
        /\ stack' = r.stack
        /\ status' = r.status
        /\ scope' = r.scope
  /\ last' = [op |-> "arm"]
  /\ UNCHANGED <<ncalls, used, unit>>

\* StmtKind::Expr(Assert {trivial: Some(false)}): the current block fails
\* and the lowering of the enclosing block diverges
Diverge ==
  /\ status = "body"
  /\ LET r == arm_done(terminate(bm, bm.cur_block, TermFail), stack, "Err", scope) IN
        /\ bm' = r.b
        /\ stack' = r.stack
        /\ status' = r.status
        /\ scope' = r.scope
  /\ last' = [op |-> "fail"]
  /\ UNCHANGED <<ncalls, used, unit>>

Next ==
  \/ \E args \in {<< >>, <<HVarSeq[1]>>} : StartProc(args)
  \/ \E e \in Operands : LetStmt(e)
  \/ \E old \in scope : AssignStmt(old)
  \/ \E S \in {{}, scope}, g \in {FreshGen(bm)} \cup (1 .. MaxIfGen), d \in BOOLEAN :
       IfBegin(SeqOf(S), g, d)
  \/ ArmEnd
  \/ Diverge

Spec == Init /\ [][Next]_vars

(* ------------------------------------------------------------------ *)
(* The items of a compilation unit, one build_item call per step       *)
(* (specification SpecItems)                                           *)
(* ------------------------------------------------------------------ *)
\* build_item for a procedure with arguments args whose body binds n variables
ItemProc(args, n) ==
  /\ status = "new"
  /\ ~unit.start.built
  /\ Len(unit.items) < MaxItems
  /\ LET b == build_item_proc(args, SubSeq(HVarSeq, Len(args) + 1, Len(args) + n)) IN
       /\ bm' = b
       /\ unit' = [unit EXCEPT !.items = Append(@,
                     [kind |-> "proc", start |-> NewBuildMir.tr.next_var, next |-> b.tr.next_var,
                      max_var |-> b.cfg.max_var, pre |-> unit.init, post |-> unit.init])]
  /\ last' = [op |-> "item"]
  /\ UNCHANGED <<ncalls, stack, status, scope, used>>

\* build_item for a global whose initial value is e
ItemGlobal(e) ==
  /\ status = "new"
  /\ ~unit.start.built
  /\ Len(unit.items) < MaxItems
  /\ LET r == build_item_global(unit.init, HVarSeq[1], e) IN
       /\ bm' = r.b
       /\ unit' = [unit EXCEPT !.init = r.init,
                   !.items = Append(@,
                     [kind |-> "global", start |-> r.start, next |-> r.b.tr.next_var,
                      max_var |-> r.init.cfg.max_var, pre |-> unit.init, post |-> r.init])]
  /\ last' = [op |-> "item"]
  /\ UNCHANGED <<ncalls, stack, status, scope, used>>

\* Initializer::finish is called for the entry procedure main once the items
\* of the unit are built
Finish(main) ==
  /\ status = "new"
  /\ ~unit.start.built
  /\ LET b == finish(unit.init, main) IN
       /\ bm' = b
       /\ unit' = [unit EXCEPT !.start =
                     [built |-> TRUE, main |-> main, pre |-> unit.init, cfg |-> b.cfg,
                      globals |-> b.globals, first |-> unit.init.cfg.max_var,
                      next |-> b.tr.next_var]]
  /\ last' = [op |-> "finish"]
  /\ UNCHANGED <<ncalls, stack, status, scope, used>>

NextItems ==
  \/ \E args \in {<< >>, <<HVarSeq[1]>>}, n \in 0 .. MaxLets : ItemProc(args, n)
  \/ \E e \in {Const, Fail} : ItemGlobal(e)
  \/ \E main \in {NoMain} \cup {SomeMain(n) : n \in 0 .. MaxReturns} : Finish(main)

SpecItems == Init /\ [][NextItems]_vars

(* ------------------------------------------------------------------ *)
(* Ifs whose condition is statically known (specification SpecTriv)    *)
(* ------------------------------------------------------------------ *)
\* an if with trivial = Some(truth) is lowered, as a statement or as the
\* right hand side of a let of a new source variable; cases are its two arms
TrivialIf(cond, hyp, truth, cases, withDest) ==
  /\ status = "body"
  /\ ncalls < MaxStmts
  /\ withDest => HasNewHVar /\ (IF truth THEN cases[1] ELSE cases[2]) # Fail
  /\ hyp # << >> => \A i \in 1 .. Len(hyp) : ~Has(bm.tr.locations, hyp[i])
  /\ LET dest == IF withDest THEN PrePre(NewHVar) ELSE NoDest
         r    == expr_if_trivial(bm, cond, hyp, truth, cases, dest)
     IN /\ bm' = IF r.res = "Err" THEN build_proc_exit(r.b)
                 ELSE IF withDest THEN tup_pat(r.b, NewHVar) ELSE r.b
        /\ status' = IF r.res = "Err" THEN "done" ELSE "body"
        /\ last' = [op |-> "trivial_if", pre |-> bm, cond |-> cond, hyp |-> hyp,
                    truth |-> truth, cases |-> cases, dest |-> dest, res |-> r.res]
  /\ scope' = IF withDest THEN scope \cup {NewHVar} ELSE scope
  /\ used' = IF withDest THEN used \cup {NewHVar} ELSE used
  /\ ncalls' = ncalls + 1
  /\ UNCHANGED <<stack, unit>>

NextTriv ==
  \/ \E args \in {<< >>, <<HVarSeq[1]>>} : StartProc(args)
  \/ \E e \in Operands : LetStmt(e)
  \/ \E old \in scope : AssignStmt(old)
  \/ \E cond \in Operands, hyp \in {<< >>, HypNames}, truth \in BOOLEAN,
        e1 \in {Const, Fail}, e2 \in {Const, Fail}, d \in BOOLEAN :
       TrivialIf(cond, hyp, truth, <<e1, e2>>, d)

SpecTriv == Init /\ [][NextTriv]_vars

(* ------------------------------------------------------------------ *)
(* Variable references inside types and pure expressions               *)
(* (specification SpecVar)                                             *)
(* ------------------------------------------------------------------ *)
\* the type or pure expression of a lowered construct mentions Var(v), as an
\* expression or as a place, and is translated in the current generation
TyVarCall(v, asPlace) ==
  /\ status = "body"
  /\ ncalls < MaxStmts
  /\ LET r == IF asPlace THEN tr_ty_place_var(bm.tr, v) ELSE tr_ty_expr_var(bm.tr, v) IN
       /\ bm' = [bm EXCEPT !.tr = r.t]
       /\ last' = [op |-> "ty_var", v |-> v, g |-> bm.tr.cur_gen, val |-> r.val,
                   place |-> asPlace,
                   alias |-> Has(r.t.vars, r.t.locations[v]) /\ r.t.vars[r.t.locations[v]] # r.t.locations[v]]
  /\ ncalls' = ncalls + 1
  /\ UNCHANGED lowering

NextVar ==
  \/ \E args \in {<< >>, <<HVarSeq[1]>>} : StartProc(args)
  \/ \E e \in Operands : LetStmt(e)
  \/ \E old \in scope : AssignStmt(old)
  \/ \E v \in scope, p \in BOOLEAN : TyVarCall(v, p)

SpecVar == Init /\ [][NextVar]_vars

(* ------------------------------------------------------------------ *)
(* Loops, labelled blocks, jumps, returns and calls                    *)
(* (specification SpecLoop)                                            *)
(* ------------------------------------------------------------------ *)
\* the names of labels, of the parameters of a label and of return places
LabelNames == {"a", "b"}
LabelArgs == <<"p">>
RetNames == <<"r">>

\* the innermost construct in progress
Top == stack[Len(stack)]
\* the stack once the innermost construct, a block with labels, has recorded
\* (as history) the serial number of the label entry it pushes next
LabelPushed == [stack EXCEPT ![Len(stack)].label_ids = Append(@, bm.nlabels)]

\* build_item is called for a procedure with arguments args and return
\* places rets and the lowering of its body starts
ProcBegin(args, rets) ==
  /\ status = "new"
  /\ bm = NewBuildMir
  /\ unit.items = << >>
  /\ bm' = build_proc_enter(bm, args, rets)
  /\ status' = "body"
  /\ scope' = {args[i] : i \in 1 .. Len(args)}
  /\ used' = {args[i] : i \in 1 .. Len(args)}
  /\ last' = [op |-> "proc"]
  /\ UNCHANGED <<ncalls, stack, unit>>

\* StmtKind::Expr(While {label, has_break, trivial, muts, ..}) with a constant
\* as condition is entered; its generation and the one of its body are fresh
WhileStmt(label, has_break, trivial, muts) ==
  /\ status = "body"
  /\ ncalls < MaxLoopStmts
  /\ Len(stack) < MaxDepth
  /\ LET r == while_begin(bm, label, has_break, trivial, Const, FreshGen(bm), muts,
                          FreshGen(bm) + 1, scope)
     IN /\ bm' = r.b
        /\ stack' = Append(stack, r.frame)
  /\ ncalls' = ncalls + 1
  /\ last' = [op |-> "while"]
  /\ UNCHANGED <<status, scope, used, unit>>

\* StmtKind::Expr(If {..}) with a fresh generation is entered
IfStmt ==
  /\ ncalls < MaxLoopStmts
  /\ IfBegin(SeqOf(scope), FreshGen(bm), FALSE)

\* StmtKind::Expr(Block(..)) whose block has a Label statement is entered
LBlockStmt(muts) ==
  /\ status = "body"
  /\ ncalls < MaxLoopStmts
  /\ Len(stack) < MaxDepth
  /\ LET r == lblock_begin(bm, FreshGen(bm), muts, scope) IN
        /\ bm' = r.b
        /\ stack' = Append(stack, r.frame)
  /\ ncalls' = ncalls + 1
  /\ last' = [op |-> "lblock"]
  /\ UNCHANGED <<status, scope, used, unit>>

\* StmtKind::Label(name, true, [lab]) directly inside a block with labels:
\* the body of lab, with parameters args, is entered
LabelStmt(name, args) ==
  /\ status = "body"
  /\ ncalls < MaxLoopStmts
  /\ stack # << >>
  /\ Top.kind = "lblock"
  /\ \A i \in 1 .. Len(args) : ~Has(bm.tr.locations, args[i])
  /\ LET r == stmt_label(bm, Top, name, args, FreshGen(bm), scope) IN
        /\ bm' = r.b
        /\ stack' = Append(LabelPushed, r.frame)
  /\ scope' = scope \cup {args[i] : i \in 1 .. Len(args)}
  /\ ncalls' = ncalls + 1
  /\ last' = [op |-> "label"]
  /\ UNCHANGED <<status, used, unit>>

\* StmtKind::Label(name, false, _) directly inside a block with labels
LabelNoJumpStmt(name) ==
  /\ status = "body"
  /\ ncalls < MaxLoopStmts
  /\ stack # << >>
  /\ Top.kind = "lblock"
  /\ bm' = stmt_label_no_jump(bm, Top, name)
  /\ stack' = LabelPushed
  /\ ncalls' = ncalls + 1
  /\ last' = [op |-> "label"]
  /\ UNCHANGED <<status, scope, used, unit>>

\* StmtKind::Expr(Jump(lab, 0, es, None)) to a label in scope that expects jumps
JumpStmt(lab, es) ==
  /\ status = "body"
  /\ rfind(bm.labels, lab) # 0
  /\ bm.labels[rfind(bm.labels, lab)].jumps.has
  /\ LET r == unwind(expr_jump(bm, lab, 1, es), stack, "Err", scope) IN
        /\ bm' = r.b
        /\ stack' = r.stack
        /\ status' = r.status
        /\ scope' = r.scope
        /\ last' = [op |-> "jump", lab |-> lab, labels |-> bm.labels, blk |-> bm.cur_block,
                    supplied |-> Len(es),
                    declared |-> Len(bm.labels[rfind(bm.labels, lab)].jumps.labs[1].args),
                    body |-> r.body]
  /\ UNCHANGED <<ncalls, used, unit>>

\* StmtKind::Expr(Break(lab, unit)) to a label in scope that expects breaks
BreakStmt(lab) ==
  /\ status = "body"
  /\ rfind(bm.labels, lab) # 0
  /\ bm.labels[rfind(bm.labels, lab)].brk.has
  /\ LET r == unwind(expr_break(bm, lab, Const), stack, "Err", scope) IN
        /\ bm' = r.b
        /\ stack' = r.stack
        /\ status' = r.status
        /\ scope' = r.scope
        /\ last' = [op |-> "break", lab |-> lab, labels |-> bm.labels, blk |-> bm.cur_block,
                    supplied |-> 0, declared |-> 0, body |-> r.body]
  /\ UNCHANGED <<ncalls, used, unit>>

\* StmtKind::Expr(Return(es))
ReturnStmt(es) ==
  /\ status = "body"
  /\ LET r == unwind(expr_return(bm, es), stack, "Err", scope) IN
        /\ bm' = r.b
        /\ stack' = r.stack
        /\ status' = r.status
        /\ scope' = r.scope
        /\ last' = [op |-> "return", lab |-> "", labels |-> bm.labels, blk |-> bm.cur_block,
                    supplied |-> Len(es), declared |-> Len(bm.returns.args), body |-> r.body]
  /\ UNCHANGED <<ncalls, used, unit>>

\* StmtKind::Expr(Call {rk: Struct(n), ..}) to a callee that returns m values
CallStmt(n, m) ==
  /\ status = "body"
  /\ ncalls < MaxLoopStmts
  /\ bm' = expr_call(bm, n, m, FreshGen(bm))
  /\ ncalls' = ncalls + 1
  /\ last' = [op |-> "call", lab |-> "", labels |-> bm.labels, blk |-> bm.cur_block,
              supplied |-> n, declared |-> m, body |-> "none"]
  /\ UNCHANGED <<stack, status, scope, used, unit>>

\* the patterns a call returning n values is bound to: a tuple of n new
\* variables, or one new variable
CallPats(n) == {PatTuple("t", SubSeq(HVarSeq, Cardinality(used) + 1, Cardinality(used) + n))}
                 \cup {PatName(NewHVar)}

\* StmtKind::Let {lhs, rhs: Call {rk: Struct(n), ..}} to a callee that returns
\* n values
LetCallStmt(lhs, n) ==
  /\ status = "body"
  /\ ncalls < MaxLoopStmts
  /\ Cardinality(used) + n <= Len(HVarSeq)
  /\ bm' = let_stmt_call(bm, lhs, n, n, FreshGen(bm))
  /\ scope' = scope \cup (IF lhs.k = "Tuple" THEN {lhs.pats[i] : i \in 1 .. n} ELSE {lhs.var})
  /\ used' = used \cup (IF lhs.k = "Tuple" THEN {lhs.pats[i] : i \in 1 .. n} ELSE {lhs.var})
  /\ ncalls' = ncalls + 1
  /\ last' = [op |-> "letcall", lhs |-> lhs, n |-> n, blk |-> bm.cur_block,
              stmts |-> Len(Blk(bm.cfg, bm.cur_block).stmts), next_var |-> bm.tr.next_var,
              vars |-> bm.tr.vars]
  /\ UNCHANGED <<stack, status, unit>>

\* StmtKind::Expr(Assert {trivial: Some(false)}): the current block fails
FailStmt ==
  /\ status = "body"
  /\ LET r == unwind(terminate(bm, bm.cur_block, TermFail), stack, "Err", scope) IN
        /\ bm' = r.b
        /\ stack' = r.stack
        /\ status' = r.status
        /\ scope' = r.scope
        /\ last' = [op |-> "fail", body |-> r.body, blk |-> bm.cur_block]
  /\ UNCHANGED <<ncalls, used, unit>>

\* the statements of the innermost block in progress (the body of the
\* procedure when no construct is in progress) are exhausted: the block returns
BlockEnd ==
  /\ status = "body"
  /\ LET b == IF stack # << >> /\ Top.kind = "if" /\ Top.trans.k # "None"
              THEN expr_dest(bm, Const, Top.trans) ELSE bm
         r == unwind(b, stack, "Ok", scope)
     IN /\ bm' = r.b
        /\ stack' = r.stack
        /\ status' = r.status
        /\ scope' = r.scope
        /\ last' = [op |-> "end", body |-> r.body, blk |-> bm.cur_block,
                    kind |-> IF stack = << >> THEN "proc" ELSE Top.kind]
  /\ UNCHANGED <<ncalls, used, unit>>

\* the number of parameters of the label a jump to lab selects
Declared(lab) == Len(bm.labels[rfind(bm.labels, lab)].jumps.labs[1].args)
\* n constants
Consts(n) == [i \in 1 .. n |-> Const]

\* procedures whose jumps supply the arguments their labels declare
NextLoop ==
  \/ ProcBegin(<<HVarSeq[1]>>, << >>)
  \/ \E old \in scope : AssignStmt(old)
  \/ \E l \in LabelNames, hb \in BOOLEAN, t \in BOOLEAN : WhileStmt(l, hb, t, SeqOf(scope))
  \/ IfStmt
  \/ LBlockStmt(SeqOf(scope))
  \/ \E l \in LabelNames, args \in {<< >>, LabelArgs} : LabelStmt(l, args)
  \/ \E l \in LabelNames : LabelNoJumpStmt(l)
  \/ \E l \in LabelNames : rfind(bm.labels, l) # 0 /\ JumpStmt(l, Consts(Declared(l)))
  \/ \E l \in LabelNames : BreakStmt(l)
  \/ FailStmt
  \/ BlockEnd

SpecLoop == Init /\ [][NextLoop]_vars

(* ------------------------------------------------------------------ *)
(* Jumps, returns and calls of any arity (specification SpecArity)     *)
(* ------------------------------------------------------------------ *)
\* build_item is called for a procedure in a build whose
\* crate::proof::VERIFY_TERMINATION is vt
ProcBeginVerify(vt) ==
  /\ status = "new"
  /\ bm = NewBuildMir
  /\ unit.items = << >>
  /\ bm' = [build_proc_enter(bm, <<HVarSeq[1]>>, << >>) EXCEPT !.verify_termination = vt]
  /\ status' = "body"
  /\ scope' = {HVarSeq[1]}
  /\ used' = {HVarSeq[1]}
  /\ last' = [op |-> "proc"]
  /\ UNCHANGED <<ncalls, stack, unit>>

\* StmtKind::Expr(While {trivial: Some(false), ..}) with a constant as condition
WhileFalseStmt ==
  /\ status = "body"
  /\ ncalls < MaxLoopStmts
  /\ bm' = while_trivial_false(bm, Const)
  /\ ncalls' = ncalls + 1
  /\ last' = [op |-> "while_false"]
  /\ UNCHANGED <<stack, status, scope, used, unit>>

(* ------------------------------------------------------------------ *)
(* Loops in builds with and without termination checking              *)
(* (specification SpecTerm)                                            *)
(* ------------------------------------------------------------------ *)
NextTerm ==
  \/ \E vt \in BOOLEAN : ProcBeginVerify(vt)
  \/ \E hb \in BOOLEAN, t \in BOOLEAN : WhileStmt("a", hb, t, SeqOf(scope))
  \/ WhileFalseStmt
  \/ IfStmt
  \/ rfind(bm.labels, "a") # 0 /\ JumpStmt("a", << >>)
  \/ BreakStmt("a")
  \/ FailStmt
  \/ BlockEnd

SpecTerm == Init /\ [][NextTerm]_vars

NextArity ==
  \/ \E rets \in {<< >>, RetNames} : ProcBegin(<<HVarSeq[1]>>, rets)
  \/ LBlockStmt(SeqOf(scope))
  \/ \E args \in {<< >>, LabelArgs} : LabelStmt("a", args)
  \/ \E es \in {<< >>, <<Const>>} : JumpStmt("a", es)
  \/ \E es \in {<< >>, <<HVarSeq[1]>>} : ReturnStmt(es)
  \/ \E n \in 1 .. 2, m \in 1 .. 2 : CallStmt(n, m)
  \/ \E n \in 1 .. 2 : Cardinality(used) + n <= Len(HVarSeq) /\ \E lhs \in CallPats(n) : LetCallStmt(lhs, n)
  \/ BlockEnd

SpecArity == Init /\ [][NextArity]_vars

(* ------------------------------------------------------------------ *)
(* Generation resolution (C3, C4), checked under SpecTr                *)
(* ------------------------------------------------------------------ *)
\* g descends from a through dominator links and no generation on the chain
\* from g up to (excluding) a has an explicit rebinding for v
RECURSIVE InheritsFrom(_, _, _, _)
InheritsFrom(t, v, g, a) ==
  \/ g = a
  \/ /\ g # ROOT
     /\ ~Has(t.gen_vars[g].value, v)
     /\ InheritsFrom(t, v, t.gen_vars[g].dominator, a)

\* the six orders in which three resolutions can be made
Orders3 == { <<1, 2, 3>>, <<1, 3, 2>>, <<2, 1, 3>>, <<2, 3, 1>>, <<3, 1, 2>>, <<3, 2, 1>> }

\* resolve v in gs[o[1]], then gs[o[2]], then gs[o[3]]; the result maps each
\* generation to the identifier its resolution returned
ResolveInOrder(t, v, gs, o) ==
  LET r1 == tr_var(t, v, gs[o[1]])
      r2 == tr_var(r1.t, v, gs[o[2]])
      r3 == tr_var(r2.t, v, gs[o[3]])
  IN  [i \in 1 .. 3 |-> IF i = o[1] THEN r1.val ELSE IF i = o[2] THEN r2.val ELSE r3.val]

\* C3: in every reachable state of the generation table, for every source
\* variable v and generations g1, g2 that descend from a common ancestor a with
\* no explicit rebinding of v on either chain (a excluded), resolving v in g1,
\* g2 and a, in any order, returns one and the same identifier.
C3_Confluence ==
  \A v \in TrHVars : \A g1 \in Registered : \A g2 \in Registered : \A a \in Registered :
    (g1 <= g2 /\ InheritsFrom(bm.tr, v, g1, a) /\ InheritsFrom(bm.tr, v, g2, a)) =>
      \A o \in Orders3 :
        LET ids == ResolveInOrder(bm.tr, v, <<g1, g2, a>>, o) IN
        ids[1] = ids[2] /\ ids[2] = ids[3]

\* two distinct generations below a common ancestor without a rebinding of v
\* on either chain, both resolved, the second of them by the last call
C3_Witness ==
  \E v \in TrHVars : \E g1 \in Registered : \E g2 \in Registered : \E a \in Registered :
    /\ g1 # g2 /\ g1 # a /\ g2 # a
    /\ InheritsFrom(bm.tr, v, g1, a) /\ InheritsFrom(bm.tr, v, g2, a)
    /\ Has(bm.tr.gen_vars[g1].cache, v)
    /\ Has(bm.tr.gen_vars[g2].cache, v)
    /\ last.op = "tr_var" /\ last.v = v /\ last.g = g2

\* resolving (v, g) in table t returns id and allocates nothing
ResolvesTo(t, v, g, id) ==
  LET r == tr_var(t, v, g) IN r.val = id /\ r.t.next_var = t.next_var

\* after one more Translator call of any kind on table t, (v, g) resolves to id
StableAfterOneCall(t, v, g, id) ==
  /\ \A w \in TrHVars : \A h \in DOMAIN t.gen_vars : ResolvesTo(tr_var(t, w, h).t, v, g, id)
  /\ \A w \in TrHVars : ResolvesTo(location(t, w).t, v, g, id)
  /\ \A d \in DOMAIN t.gen_vars : \A h \in GenIds : ResolvesTo(try_add_gen(t, d, h), v, g, id)
  /\ \A d \in DOMAIN t.gen_vars : \A h \in GenIds \ DOMAIN t.gen_vars :
       \A w \in TrHVars : \A i \in 0 .. (t.next_var - 1) :
         ResolvesTo(add_gen(t, d, h, Put(EmptyMap, w, i)), v, g, id)

\* C4: in every reachable state, resolve(v, g) returns the explicit rebinding
\* of v in g if g has one; otherwise for the root generation an identifier
\* (fresh when v was not resolved there before); otherwise what resolving v in
\* the dominator returns. Resolving (v, g) again, directly or after one more
\* call of any kind, returns the same identifier and allocates nothing.
C4_Resolve ==
  \A v \in TrHVars : \A g \in Registered :
    LET gm == bm.tr.gen_vars[g]
        r1 == tr_var(bm.tr, v, g)
    IN
    /\ Has(gm.value, v) => r1.val = gm.value[v]
    /\ (~Has(gm.value, v) /\ g = ROOT /\ ~Has(gm.cache, v)) =>
          /\ r1.val = bm.tr.next_var
          /\ r1.t.next_var = bm.tr.next_var + 1
    /\ (~Has(gm.value, v) /\ g # ROOT) =>
          r1.val = tr_var(r1.t, v, gm.dominator).val
    /\ ResolvesTo(r1.t, v, g, r1.val)
    /\ StableAfterOneCall(r1.t, v, g, r1.val)

\* a repeated resolution in a non-root generation without a rebinding has
\* been made after a resolution of another variable
C4_Witness ==
  /\ last.op = "tr_var"
  /\ last.cached
  /\ last.g # ROOT
  /\ ~Has(bm.tr.gen_vars[last.g].value, last.v)
  /\ \E w \in TrHVars \ {last.v} : Has(bm.tr.gen_vars[ROOT].cache, w)


(* ------------------------------------------------------------------ *)
(* Joins (C1, C2), checked under Spec                                  *)
(* ------------------------------------------------------------------ *)
\* resolve(v, g) as the generation table answers it now
Resolve(v, g) == tr_var(bm.tr, v, g).val

JumpIdx == 1 .. Len(bm.jumps)
\* the arguments join_args added to jump j: those after the ones its caller gave
DiffArgs(j) == SubSeq(j.args, j.given + 1, Len(j.args))
MutsOf(j) == {j.muts[k] : k \in 1 .. Len(j.muts)}

\* C1: every jump to a join block from generation g_src to a join point
\* (g_tgt, muts) carries, for every v in muts with resolve(v, g_src) different
\* from resolve(v, g_tgt), exactly one argument with target resolve(v, g_tgt)
\* and operand resolve(v, g_src), also when the source identifier was defined
\* inside the branch being left.
C1_JoinComplete ==
  \A i \in JumpIdx :
    LET j == bm.jumps[i] IN
    /\ Blk(bm.cfg, j.blk).term = TermJump(j.tgt, j.args)
    /\ \A v \in MutsOf(j) :
         Resolve(v, j.src_gen) # Resolve(v, j.gen) =>
           Cardinality({a \in 1 .. Len(j.args) :
                          /\ j.args[a].to = Resolve(v, j.gen)
                          /\ j.args[a].from = Resolve(v, j.src_gen)}) = 1

BlockIds == 0 .. (Len(bm.cfg.blocks) - 1)
SeqRange(q) == {q[i] : i \in 1 .. Len(q)}

\* the variables of the context chain a block starts in
CtxVars(id) == {e.var : e \in SeqRange(ctxs_rev_iter(bm.cfg, Blk(bm.cfg, id).ctx))}

\* the parameters of a block: the targets of the arguments of the jumps to it
\* and the hypothesis an If terminator introduces for it
BlockParams(id) ==
  UNION {LET t == Blk(bm.cfg, p).term IN
         IF t.k = "Jump" /\ t.tgt = id THEN {a.to : a \in SeqRange(t.args)}
         ELSE IF t.k = "If" THEN {c.v : c \in {c \in SeqRange(t.tgts) : c.bl = id}}
         ELSE {} : p \in BlockIds}

StmtDefs(st) == SeqRange(st.def) \cup {r.to : r \in SeqRange(st.renames)}
StmtUses(st) == st.uses \cup {r.from : r \in SeqRange(st.renames)}
TermUses(t) ==
  IF t.k = "If" THEN {t.cond}
  ELSE IF t.k = "Jump" THEN {a.from : a \in SeqRange(t.args)}
  ELSE {}

\* the variables bound in block id before its statement number n + 1
BoundAt(id, n) ==
  CtxVars(id) \cup BlockParams(id)
    \cup UNION {StmtDefs(Blk(bm.cfg, id).stmts[i]) : i \in 1 .. n}

\* C5: in every emitted block, every variable referenced by a statement or by
\* the terminator (Jump arguments included) is bound by a prior statement of
\* the block, by an entry of the block's starting context chain, or by a block
\* parameter.
C5_NoUseBeforeDef ==
  \A id \in BlockIds :
    LET bl == Blk(bm.cfg, id) IN
    /\ \A i \in 1 .. Len(bl.stmts) : StmtUses(bl.stmts[i]) \subseteq BoundAt(id, i - 1)
    /\ TermUses(bl.term) \subseteq BoundAt(id, Len(bl.stmts))

(* ------------------------------------------------------------------ *)
(* Assignments (C7), checked under Spec                                *)
(* ------------------------------------------------------------------ *)
\* C7: lowering an assignment to source variable x in generation g registers a
\* new generation g' dominated by g in which x resolves to an identifier
\* different from resolve(x, g); the rename entry of the Assign statement has
\* from = resolve(x, g), to = resolve(x, g') and from # to; afterwards the
\* cursor's generation is g'.
C7_AssignRenames ==
  \A i \in 1 .. Len(bm.assigns) :
    LET a  == bm.assigns[i]
        st == Blk(bm.cfg, a.blk).stmts[a.at]
    IN /\ a.dominator = a.g
       /\ a.post # a.pre
       /\ a.cur_gen = a.gen
       /\ st.k = "Assign"
       /\ Len(st.renames) = 1
       /\ st.renames[1].from = a.pre
       /\ st.renames[1].to = a.post
       /\ st.renames[1].from # st.renames[1].to


(* ------------------------------------------------------------------ *)
(* expr_if and divergence (C8, C9, C10), checked under Spec            *)
(* ------------------------------------------------------------------ *)
IfIdx == 1 .. Len(bm.ifs)
\* the blocks an expr_if call allocated itself: its two arm entry blocks and
\* the blocks allocated after both arms were lowered
OwnBlocks(r) == {r.tru, r.fal} \cup (r.blocks1 .. (r.blocks2 - 1))
\* the DominatedBlock statements of the block an if started in
DominatedOf(r) ==
  {st \in SeqRange(Blk(bm.cfg, r.base[1]).stmts) : st.k = "DominatedBlock"}

\* C8: if the lowering of both arms of a non-trivial if returns Diverged,
\* expr_if returns Diverged and allocates no join block: the only blocks it
\* allocates are the two arm entry blocks.
C8_BothDiverge ==
  \A i \in IfIdx :
    LET r == bm.ifs[i] IN
    (r.tru_res = "Err" /\ r.fal_res = "Err") =>
      /\ r.res = "Err"
      /\ OwnBlocks(r) = {r.blocks0, r.blocks0 + 1}
      /\ r.jumps2 = r.jumps1
      /\ \A st \in DominatedOf(r) : st.tgt \notin OwnBlocks(r)

\* an if both arms of which diverged, in the true arm of another if, which
\* diverged in turn
C8_Witness ==
  /\ bm.ifs # << >>
  /\ bm.ifs[Len(bm.ifs)].tru_res = "Err" /\ bm.ifs[Len(bm.ifs)].fal_res = "Err"
  /\ stack # << >>
  /\ stack[Len(stack)].phase = "fal" /\ stack[Len(stack)].tru_res = "Err"

\* C9: when exactly one arm of a non-trivial if diverges, expr_if returns
\* normally, allocates no join block, and leaves the cursor (block, context,
\* generation) where the lowering of the surviving arm ended.
C9_OneDiverges ==
  \A i \in IfIdx :
    LET r == bm.ifs[i] IN
    /\ (r.tru_res = "Err" /\ r.fal_res = "Ok") =>
         /\ r.res = "Ok"
         /\ r.after = r.fal_end
         /\ OwnBlocks(r) = {r.blocks0, r.blocks0 + 1}
         /\ r.jumps2 = r.jumps1
    /\ (r.tru_res = "Ok" /\ r.fal_res = "Err") =>
         /\ r.res = "Ok"
         /\ r.after = r.tru_end
         /\ OwnBlocks(r) = {r.blocks0, r.blocks0 + 1}
         /\ r.jumps2 = r.jumps1

\* the surviving arm ended in another block, context and generation than the
\* arm that diverged started in
C9_Witness ==
  \E i \in IfIdx :
    LET r == bm.ifs[i] IN
    /\ r.tru_res = "Ok" /\ r.fal_res = "Err"
    /\ r.tru_end[1] # r.tru /\ r.tru_end[3] # r.base[3]
    /\ r.after = r.tru_end

\* C10: when neither arm of a non-trivial if diverges, expr_if allocates exactly
\* one join block whose starting context is the pre-if context extended with
\* the merged destination (when a destination was given), terminates the end
\* block of each arm with a Jump to it in which the result value is the only
\* argument apart from those of the mutated-variable diff (none without a
\* destination), and leaves the cursor at (join block, that context, gen_).
C10_Join ==
  \A i \in IfIdx :
    LET r == bm.ifs[i] IN
    (r.tru_res = "Ok" /\ r.fal_res = "Ok") =>
      LET jn   == r.blocks1
          ctx  == Blk(bm.cfg, jn).ctx
          given == IF r.trans.k = "None" THEN << >>
                   ELSE <<[to |-> r.trans.v, rel |-> TRUE, from |-> r.trans.v]>>
          j1   == bm.jumps[r.jumps1 + 1]
          j2   == bm.jumps[r.jumps1 + 2]
      IN /\ r.res = "Ok"
         /\ OwnBlocks(r) = {r.blocks0, r.blocks0 + 1, jn}
         /\ IF r.trans.k = "None" THEN ctx = r.base[2]
            ELSE /\ ctx # CtxROOT
                 /\ bm.cfg.ctxs[ctx] = [parent |-> r.base[2], var |-> r.trans.v, rel |-> TRUE]
         /\ r.jumps2 = r.jumps1 + 2
         /\ j1.blk = r.tru_end[1] /\ j2.blk = r.fal_end[1]
         /\ \A j \in {j1, j2} :
              /\ j.tgt = jn
              /\ Blk(bm.cfg, j.blk).term = TermJump(jn, j.args)
              /\ j.given = Len(given)
              /\ SubSeq(j.args, 1, j.given) = given
              /\ j.gen = r.gen /\ j.muts = r.muts
         /\ r.after = <<jn, ctx, r.gen>>

\* an if with a destination neither arm of which diverged
C10_Witness ==
  \E i \in IfIdx :
    LET r == bm.ifs[i] IN
    /\ r.tru_res = "Ok" /\ r.fal_res = "Ok"
    /\ r.trans.k = "Ok"
    /\ r.gen # r.base[3]


(* ------------------------------------------------------------------ *)
(* The identifier counter across items (C6), checked under SpecItems   *)
(* ------------------------------------------------------------------ *)
ItemIdx == 1 .. Len(unit.items)
\* the identifiers allocated while item i was lowered
AllocatedBy(i) == unit.items[i].start .. (unit.items[i].next - 1)
\* the counter value left by the items kinds built before item i
HighWater(i, kinds) ==
  LET before == {k \in 1 .. (i - 1) : unit.items[k].kind \in kinds} IN
  IF before = {} THEN 0 ELSE unit.items[CHOOSE k \in before : \A h \in before : h <= k].next

TrivTaken == IF last.truth THEN last.cases[1] ELSE last.cases[2]
\* the builder after lowering the taken arm alone from the state before the if
TrivAlone == expr(last.pre, TrivTaken, last.dest).b
\* the statements the trivial case adds before the taken arm
TrivExtra == 1 + (IF last.hyp = << >> THEN 0 ELSE 1)
TrivBlock == last.pre.cur_block + 1

NotWitness(st) == ~(st.k = "Let" /\ ~st.rel)
StripWitness(blocks) ==
  [i \in 1 .. Len(blocks) |-> [blocks[i] EXCEPT !.stmts = SelectSeq(@, NotWitness)]]

\* C11 as stated: lowering an if whose condition is known true or false
\* gives the blocks, statements and terminators of lowering the taken arm
\* alone, once the witness binding is left out
C11_TrivialEquiv ==
  last.op = "trivial_if" =>
    StripWitness(bm.cfg.blocks) = StripWitness(TrivAlone.cfg.blocks)

ShiftId(i, from, k) == IF i >= from THEN i + k ELSE i
ShiftStmt(st, from, k) ==
  [st EXCEPT !.def = [j \in DOMAIN @ |-> ShiftId(@[j], from, k)],
             !.uses = {ShiftId(i, from, k) : i \in @}]

\* C11 amended: the blocks and terminators are those of lowering the taken arm
\* alone; the statements of the current block are those of the taken arm
\* preceded by the store of the condition to a fresh temporary and, when the
\* hypotheses are named, by the single witness binding, the identifiers the
\* arm allocates being shifted by these one or two bindings
C11_TrivialEquivModCond ==
  last.op = "trivial_if" =>
    LET n     == last.pre.tr.next_var
        A     == TrivAlone.cfg.blocks
        T     == bm.cfg.blocks
        old   == Len(last.pre.cfg.blocks[TrivBlock].stmts)
        condSt == StmtLet(n, TRUE, operand(last.pre, last.cond).uses)
        wit   == IF last.hyp = << >> THEN << >> ELSE <<StmtLet(n + 1, FALSE, {})>>
        tailA == SubSeq(A[TrivBlock].stmts, old + 1, Len(A[TrivBlock].stmts))
    IN /\ Len(T) = Len(A)
       /\ \A i \in 1 .. Len(T) :
            /\ T[i].term = A[i].term
            /\ T[i].ctx = A[i].ctx
            /\ T[i].parent = A[i].parent
            /\ i # TrivBlock => T[i].stmts = A[i].stmts
       /\ T[TrivBlock].stmts =
            SubSeq(A[TrivBlock].stmts, 1, old) \o <<condSt>> \o wit
              \o [j \in 1 .. Len(tailA) |-> ShiftStmt(tailA[j], n, TrivExtra)]

\* a known-true if with named hypotheses, a variable as condition and a destination
C11_Witness ==
  /\ last.op = "trivial_if"
  /\ last.truth
  /\ last.hyp # << >>
  /\ last.cond # Const
  /\ last.dest.k = "Pre"
  /\ last.pre.tr.cur_gen # ROOT

C13_VarTranslation ==
  (last.op = "ty_var" /\ ~last.alias) => last.val = tr_var(bm.tr, last.v, last.g).val

\* C14 (under SpecTr): the recorded location of a source variable is the
\* identifier the variable resolves to in the root generation
C14_LocationIsRoot ==
  \A v \in TrHVars :
    Has(bm.tr.locations, v) => bm.tr.locations[v] = tr_var(bm.tr, v, ROOT).val


(* ------------------------------------------------------------------ *)
(* Contexts along edges (C15), checked under SpecLoop                  *)
(* ------------------------------------------------------------------ *)
\* context c is context d or one of the contexts d extends
RECURSIVE CtxPrefix(_, _)
CtxPrefix(c, d) == c = d \/ (d # CtxROOT /\ CtxPrefix(c, bm.cfg.ctxs[d].parent))

\* the context of at most n entries that context c is or extends
RECURSIVE CtxTruncate(_, _)
CtxTruncate(c, n) ==
  IF ctxs_len(bm.cfg, c) <= n THEN c ELSE CtxTruncate(bm.cfg.ctxs[c].parent, n)

\* the blocks the edges of terminator t go to
TermTargets(t) ==
  IF t.k = "Jump" \/ t.k = "Call" THEN {t.tgt}
  ELSE IF t.k = "If" THEN {t.tgts[1].bl, t.tgts[2].bl}
  ELSE {}

\* the context a block starts in without the entries that are the block's own
\* parameters (those beyond its parent length)
EntryCtx(id) == CtxTruncate(Blk(bm.cfg, id).ctx, Blk(bm.cfg, id).parent)

C16_RegisterOnlyDiverged ==
  /\ bm.registered => status = "done"
  /\ status \in {"done", "aborted"} =>
       /\ last.body = "Err" <=> bm.registered
       /\ last.body = "Ok" <=> (status = "aborted" /\ bm.panicked /\ ~bm.registered)

\* the body of a procedure fell off its end after a loop that was left through
\* its break join block: build_item aborted
C16_Witness ==
  /\ status = "aborted"
  /\ last.op = "end" /\ last.body = "Ok"
  /\ ~bm.registered
  /\ \E i \in 1 .. Len(bm.whiles) : bm.whiles[i].ended /\ bm.whiles[i].res = "Ok"

(* ------------------------------------------------------------------ *)
(* Arity mismatches (C17), checked under SpecArity                     *)
(* ------------------------------------------------------------------ *)
\* C17: an arity mismatch is fatal: a jump that supplies a number of arguments
\* different from the parameter count of its label, a return that supplies a
\* number of values different from the number of return places, and a
\* multi-value call whose destination count differs from the return count of
\* the callee abort lowering, and no Jump, Return or Call terminator with a
\* shortened argument or return list is emitted.
C17_ArityFatal ==
  (last.op \in {"jump", "return", "call"} /\ last.supplied # last.declared) =>
    /\ bm.panicked
    /\ Blk(bm.cfg, last.blk).term = NoTerm

(* ------------------------------------------------------------------ *)
(* Label lookup (C18), checked under SpecLoop                          *)
(* ------------------------------------------------------------------ *)
\* the serial numbers of the label entries pushed by the constructs of stk
\* that are still in progress, outermost first
RECURSIVE OpenLabelIds(_)
OpenLabelIds(stk) ==
  IF stk = << >> THEN << >>
  ELSE OpenLabelIds(SubSeq(stk, 1, Len(stk) - 1))
         \o (IF stk[Len(stk)].kind \in {"while", "lblock"} THEN stk[Len(stk)].label_ids ELSE << >>)

\* the block a jump (op = "jump") or a break to label entry e goes to
EntryTarget(op, e) == IF op = "jump" THEN e.jumps.labs[1].bl ELSE e.brk.jb.tgt

\* C18: a jump or break naming label L targets the entry for L pushed most
\* recently among the entries on the label stack: an outer entry of the same
\* name is not selected while an inner one is in scope, and the entries on the
\* stack are those of the constructs still in progress, so that no entry is
\* selected after its lexical scope has been left.
C18_InnermostLabel ==
  /\ [i \in 1 .. Len(bm.labels) |-> bm.labels[i].id] = OpenLabelIds(stack)
  /\ last.op \in {"jump", "break"} =>
       \E n \in 1 .. Len(last.labels) :
         /\ last.labels[n].name = last.lab
         /\ \A j \in (n + 1) .. Len(last.labels) : last.labels[j].name # last.lab
         /\ Blk(bm.cfg, last.blk).term.k = "Jump"
         /\ Blk(bm.cfg, last.blk).term.tgt = EntryTarget(last.op, last.labels[n])

\* a jump or break named a label that had two entries on the stack, with
\* different targets
C18_Witness ==
  /\ last.op \in {"jump", "break"}
  /\ \E n, j \in 1 .. Len(last.labels) :
       /\ n < j
       /\ last.labels[n].name = last.lab
       /\ last.labels[j].name = last.lab
       /\ (IF last.op = "jump" THEN last.labels[n].jumps.has ELSE last.labels[n].brk.has)
       /\ (IF last.op = "jump" THEN last.labels[j].jumps.has ELSE last.labels[j].brk.has)
       /\ EntryTarget(last.op, last.labels[n]) # EntryTarget(last.op, last.labels[j])

(* ------------------------------------------------------------------ *)
(* The back-edge of a loop (C19), checked under SpecLoop               *)
(* ------------------------------------------------------------------ *)
\* the loops whose body was lowered to its end without diverging
FellThrough == {i \in 1 .. Len(bm.whiles) : bm.whiles[i].ended /\ bm.whiles[i].body = "Ok"}

\* C19: when the lowering of a while body falls through, the block it ends in
\* is terminated by a Jump to the loop head with join point (generation at
\* loop entry, mutable set of the loop), and for every variable of the mutable
\* set that the body rebound the jump passes its current identifier as the
\* argument for the identifier it resolves to in the loop-entry generation.
C19_BackEdgeArgs ==
  \A i \in FellThrough :
    LET w == bm.whiles[i]
        j == bm.jumps[w.back] IN
    /\ w.back \in JumpIdx
    /\ j.tgt = w.base_bl /\ j.gen = w.base_gen /\ j.muts = w.muts
    /\ Blk(bm.cfg, j.blk).term = TermJump(w.base_bl, j.args)
    /\ \A v \in MutsOf(j) :
         Resolve(v, j.src_gen) # Resolve(v, j.gen) =>
           Cardinality({a \in 1 .. Len(j.args) :
                          /\ j.args[a].to = Resolve(v, j.gen)
                          /\ j.args[a].from = Resolve(v, j.src_gen)}) = 1

(* ------------------------------------------------------------------ *)
(* Loops whose condition is statically true (C20), checked under SpecLoop *)
(* ------------------------------------------------------------------ *)
\* the loops lowered with trivial = Some(true)
TrivialLoops == {i \in 1 .. Len(bm.whiles) : bm.whiles[i].trivial}

\* the positions of the statements of kind k in block id
StmtsAt(id, k) == {p \in 1 .. Len(Blk(bm.cfg, id).stmts) : Blk(bm.cfg, id).stmts[p].k = k}

\* C20: a loop whose condition is statically true returns Diverged when it has
\* no break target; when it has one, the block the loop was entered from
\* declares the break join block as a dominated block before it opens the
\* label group of the loop head and ends in the jump to the head, and once the
\* loop is lowered, lowering continues at the break join block with the
\* context in force before the loop and the generation gen_ of the loop.
C20_TrivialTrueLoop ==
  \A i \in TrivialLoops :
    LET w == bm.whiles[i] IN
    /\ (~w.has_break /\ w.ended) => w.res = "Err"
    /\ w.has_break =>
         /\ w.brk.has
         /\ w.brk.jb.tgt \in BlockIds
         /\ \E p \in StmtsAt(w.pre, "DominatedBlock"), q \in StmtsAt(w.pre, "LabelGroup") :
              /\ p < q
              /\ Blk(bm.cfg, w.pre).stmts[p].tgt = w.brk.jb.tgt
              /\ Blk(bm.cfg, w.pre).stmts[q].group = <<w.base_bl>>
         /\ Blk(bm.cfg, w.pre).term = TermJump(w.base_bl, << >>)
         /\ w.ended => (w.res = "Ok" /\ w.after = <<w.brk.jb.tgt, w.base_ctx, w.gen>>)

\* a statically true loop with a break target was lowered to its end and a
\* break inside it jumped to its join block
C20_Witness ==
  \E i \in TrivialLoops :
    /\ bm.whiles[i].has_break /\ bm.whiles[i].ended
    /\ \E k \in JumpIdx : bm.jumps[k].tgt = bm.whiles[i].brk.jb.tgt

(* ------------------------------------------------------------------ *)
(* Blocks with label declarations (C21), checked under SpecLoop        *)
(* ------------------------------------------------------------------ *)
LBlockIdx == 1 .. Len(bm.lblocks)

\* the join blocks of the blocks with labels that pushed the label entry
\* numbered id: of those still in progress, and of those already lowered
OwnerJoins(id) ==
  {stack[k].join.tgt : k \in {n \in 1 .. Len(stack) :
       stack[n].kind = "lblock" /\ \E p \in 1 .. Len(stack[n].label_ids) : stack[n].label_ids[p] = id}}
  \cup {bm.lblocks[i].join : i \in {n \in LBlockIdx :
       bm.lblocks[n].ended /\ \E p \in 1 .. Len(bm.lblocks[n].ids) : bm.lblocks[n].ids[p] = id}}

\* the label entry a break recorded in last selected
Selected == last.labels[CHOOSE n \in 1 .. Len(last.labels) :
                          /\ last.labels[n].name = last.lab
                          /\ \A j \in (n + 1) .. Len(last.labels) : last.labels[j].name # last.lab]

\* C21: a block with a label declaration allocates exactly one join block
\* before any of its statements is lowered; its fall-through tail (passed as
\* an operand), every fall-through end of a label body and every break to its
\* labels jump to that join block; lowering continues at the join block with
\* the generation gen_ of the block.
C21_OneJoinBlock ==
  /\ \A i \in LBlockIdx :
       LET L == bm.lblocks[i] IN
       /\ L.blocks1 = L.blocks0 + 1
       /\ L.join = L.blocks0
       /\ \E p \in StmtsAt(L.pre, "DominatedBlock") : Blk(bm.cfg, L.pre).stmts[p].tgt = L.join
       /\ (L.ended /\ L.res = "Ok") =>
            /\ L.fell \in JumpIdx
            /\ bm.jumps[L.fell].tgt = L.join
            /\ bm.jumps[L.fell].given = 1
            /\ Blk(bm.cfg, bm.jumps[L.fell].blk).term = TermJump(L.join, bm.jumps[L.fell].args)
       /\ L.ended => (L.after[1] = L.join /\ L.after[3] = L.gen)
  /\ (last.op = "end" /\ last.kind = "label") =>
       /\ stack # << >> /\ stack[Len(stack)].kind = "lblock"
       /\ Blk(bm.cfg, last.blk).term.k = "Jump"
       /\ Blk(bm.cfg, last.blk).term.tgt = stack[Len(stack)].join.tgt
  /\ last.op = "break" =>
       \A t \in OwnerJoins(Selected.id) :
         /\ Blk(bm.cfg, last.blk).term.k = "Jump"
         /\ Blk(bm.cfg, last.blk).term.tgt = t

\* a block with a label was lowered to its end: its tail fell through, and
\* before that the body of the label reached the same join block, by a break
\* or by falling through
C21_Witness ==
  \E i \in LBlockIdx :
    /\ bm.lblocks[i].ended /\ bm.lblocks[i].res = "Ok" /\ bm.lblocks[i].ids # << >>
    /\ \E k \in JumpIdx :
         /\ k # bm.lblocks[i].fell
         /\ bm.jumps[k].tgt = bm.lblocks[i].join
         /\ bm.jumps[k].blk # bm.jumps[bm.lblocks[i].fell].blk

(* ------------------------------------------------------------------ *)
(* Calls bound to a tuple pattern (C22), checked under SpecArity       *)
(* ------------------------------------------------------------------ *)
\* the statement lowered last bound a call returning n values to a tuple
\* pattern of n name patterns
CallIntoTuple == last.op = "letcall" /\ last.lhs.k = "Tuple" /\ Len(last.lhs.pats) = last.n

\* C22: let-binding a call declared to return n values into a tuple pattern
\* with n sub-patterns resolves exactly n destination identifiers, one per
\* sub-pattern, which are the return slots of the Call terminator; no list
\* rvalue is emitted and no identifier is allocated for the combined result.
C22_CallIntoTuple ==
  CallIntoTuple =>
    LET t == Blk(bm.cfg, last.blk).term IN
    /\ t.k = "Call"
    /\ Len(t.rets) = last.n
    /\ \A i \in 1 .. last.n : t.rets[i].v = Resolve(last.lhs.pats[i], bm.tr.cur_gen)
    /\ \A i, j \in 1 .. last.n : i # j => t.rets[i].v # t.rets[j].v
    /\ bm.tr.next_var = last.next_var + last.n
    /\ Len(Blk(bm.cfg, last.blk).stmts) = last.stmts
    /\ bm.cur_block = t.tgt
    /\ Blk(bm.cfg, bm.cur_block).stmts = << >>

\* a call returning two values was bound to a tuple pattern of two names
C22_Witness ==
  /\ CallIntoTuple
  /\ last.n = 2
  /\ Blk(bm.cfg, last.blk).term.k = "Call"
  /\ Len(Blk(bm.cfg, last.blk).term.rets) = 2

(* ------------------------------------------------------------------ *)
(* Memoisation and pattern substitutions (C23), checked under SpecMemo *)
(* ------------------------------------------------------------------ *)
\* the calls of tr made, nested ones included, by the call recorded in last
TrLog == IF last.op \in {"tr_ty", "tr_expr"} THEN SeqRange(last.log) ELSE {}

\* the translations the memoisation tables of t hold
Memoised(t) ==
  UNION {{tab[id].r : id \in {i \in DOMAIN tab : tab[i].ok}}
           \cup UNION {{tab[id].m[g] : g \in DOMAIN tab[id].m} : id \in DOMAIN tab}
         : tab \in {t.tys, t.exprs, t.places}}

\* C23: a translation of a type, expression or place node made while the
\* substitution map is non-empty neither looks up nor changes the
\* memoisation tables; a translation made with an empty substitution map never
\* returns a result made under a substitution (no such result is in the
\* tables); and every translation, in particular of a dependent type or an
\* argument list, leaves the substitution map as it found it.
C23_SubstBypassesMemo ==
  /\ \A c \in TrLog :
       /\ c.subst0 # EmptyMap => (c.memo1 = c.memo0 /\ c.reads1 = c.reads0)
       /\ c.subst0 = EmptyMap => ~c.val.under
       /\ c.subst1 = c.subst0
  /\ \A r \in Memoised(bm.tr) : ~r.under
  /\ bm.tr.subst = EmptyMap
  /\ ~bm.tr.panicked

\* a translation was made under a substitution, for a node that had been
\* memoised before and with other nodes memoised around it
C23_Witness ==
  \E c \in TrLog :
    /\ c.subst0 # EmptyMap
    /\ c.val.under
    /\ Has(c.memo0.tys, c.id) \/ Has(c.memo0.exprs, c.id)
    /\ \E d \in TrLog : d.subst0 = EmptyMap /\ d.memo1 # d.memo0

(* ------------------------------------------------------------------ *)
(* Termination checking of loops (C24), checked under SpecTerm         *)
(* ------------------------------------------------------------------ *)
\* the body of a while loop was lowered to its end without diverging
BodyFellThrough == last.op = "end" /\ last.kind = "while"

\* C24: in a build with VERIFY_TERMINATION set, a while loop whose body
\* reaches its end without diverging aborts lowering; a loop whose body
\* diverges and a loop whose condition is statically false do not abort it:
\* the only other abort is a procedure body that returns normally.
C24_VerifyTermination ==
  /\ (bm.verify_termination /\ BodyFellThrough) => (bm.panicked /\ status = "aborted")
  /\ last.op \in {"while", "while_false", "fail", "break", "jump"} => ~bm.panicked
  /\ bm.panicked => (BodyFellThrough \/ (last.op = "end" /\ last.kind = "proc"))
  /\ (last.op = "end" /\ last.kind \notin {"while", "proc"}) => ~bm.panicked

\* with VERIFY_TERMINATION set, the body of a loop fell through and lowering
\* was aborted where the back-edge would have been emitted
C24_Witness ==
  /\ bm.verify_termination
  /\ BodyFellThrough
  /\ status = "aborted"
  /\ \E i \in 1 .. Len(bm.whiles) : ~bm.whiles[i].ended

(* ------------------------------------------------------------------ *)
(* One terminator per block (C25), checked under SpecLoop              *)
(* ------------------------------------------------------------------ *)
Terminated(id) == Blk(bm.cfg, id).term # NoTerm

\* C25: no block is given a terminator twice; while lowering goes on (the
\* lowering function called last returned normally) the current block has no
\* terminator; a statement that diverges has terminated the block it was
\* emitting into; and when build_item finishes a procedure every block
\* allocated has a terminator.
C25_OneTerminator ==
  /\ ~bm.reterminated
  /\ status = "body" => ~Terminated(bm.cur_block)
  /\ last.op \in {"fail", "jump", "break"} => Terminated(last.blk)
  /\ (last.op = "end" /\ last.body = "Err") => Terminated(last.blk)
  /\ status = "done" => \A id \in BlockIds : Terminated(id)

\* a procedure with a loop, a block with labels or an if was lowered to its
\* end: it has at least five blocks, all terminated
C25_Witness ==
  /\ status = "done"
  /\ Len(bm.cfg.blocks) >= 5
  /\ bm.jumps # << >>
  /\ \A id \in BlockIds : Terminated(id)

(* ------------------------------------------------------------------ *)
(* Balanced label and group stacks (C26), checked under SpecLoop       *)
(* ------------------------------------------------------------------ *)
\* C26: once rvalue_while or the rvalue_block of a block with labels has
\* returned, with a value or with Diverged, the label stack and the group
\* stack of the block tree are as deep as they were when it was entered; and
\* when build_item registers the procedure no label group is open, so the
\* assertion of append_to holds.
C26_BalancedStacks ==
  /\ \A i \in 1 .. Len(bm.whiles) : bm.whiles[i].ended => bm.whiles[i].depth1 = bm.whiles[i].depth0
  /\ \A i \in 1 .. Len(bm.lblocks) : bm.lblocks[i].ended => bm.lblocks[i].depth1 = bm.lblocks[i].depth0
  /\ status = "done" => bm.groups = << >> /\ bm.labels = << >> /\ ~bm.panicked

\* the procedure was registered after a loop that was entered below an open
\* label group (in a label body or in another loop) returned Diverged with
\* both stacks as deep as at its entry
C26_Witness ==
  /\ status = "done"
  /\ \E i \in 1 .. Len(bm.whiles) :
       /\ bm.whiles[i].ended /\ bm.whiles[i].res = "Err"
       /\ bm.whiles[i].depth0[2] > 0
       /\ bm.whiles[i].depth1 = bm.whiles[i].depth0

(* ------------------------------------------------------------------ *)
(* Label group markers (C27), checked under SpecLoop                   *)
(* ------------------------------------------------------------------ *)
\* the PopLabelGroup markers among the statements stmts
RECURSIVE PopCount(_)
PopCount(stmts) ==
  IF stmts = << >> THEN 0
  ELSE (IF Head(stmts) = StmtPopLabelGroup THEN 1 ELSE 0) + PopCount(Tail(stmts))

\* a loop without break whose test was reached has one PopLabelGroup in the
\* false branch of its test, where lowering goes on after the loop
WhileExitPops ==
  \A i \in 1 .. Len(bm.whiles) :
    (bm.whiles[i].ended /\ bm.whiles[i].res = "Ok" /\ ~bm.whiles[i].has_break)
      => PopCount(Blk(bm.cfg, bm.whiles[i].after[1]).stmts) = 1

\* C27: a block with labels that opened k label groups and falls through to
\* its end has k PopLabelGroup markers appended to its last basic block before
\* the jump to the join block, and a loop without break has one PopLabelGroup
\* on its exit edge.
C27_PopLabelGroups ==
  /\ \A i \in 1 .. Len(bm.lblocks) :
       (bm.lblocks[i].ended /\ bm.lblocks[i].res = "Ok")
         => bm.lblocks[i].pops = bm.lblocks[i].opened
  /\ WhileExitPops

(* ------------------------------------------------------------------ *)
(* max_var of the Cfgs handed out (C28), checked under SpecItems       *)
(* ------------------------------------------------------------------ *)
\* the identifiers allocated while the global items up to item i were lowered
AllocatedByGlobals(i) ==
  UNION {AllocatedBy(k) : k \in {k \in 1 .. i : unit.items[k].kind = "global"}}

\* the identifiers allocated while the Cfg of the start routine was built: by
\* the global items and by Initializer::finish
AllocatedByStart ==
  AllocatedByGlobals(Len(unit.items)) \cup (unit.start.first .. (unit.start.next - 1))

\* max_var of the Cfg of every procedure and of the Initializer after every
\* global item is above the identifiers allocated while it was built
ItemsMaxVar ==
  \A i \in ItemIdx :
    /\ unit.items[i].kind = "proc" => \A v \in AllocatedBy(i) : unit.items[i].max_var > v
    /\ unit.items[i].kind = "global" =>
         \A v \in AllocatedByGlobals(i) : unit.items[i].max_var > v

\* C28: for every Cfg handed out (a procedure body, the Initializer after
\* each global item, the start routine Initializer::finish returns) max_var is
\* greater than every variable identifier allocated while that Cfg was built.
C28_MaxVar ==
  /\ ItemsMaxVar
  /\ unit.start.built => \A v \in AllocatedByStart : unit.start.cfg.max_var > v

(* ------------------------------------------------------------------ *)
(* Divergence of the global initializer (C29), checked under SpecItems *)
(* ------------------------------------------------------------------ *)
\* C29: once the initializer of a global item has returned Diverged, every
\* later global item leaves the blocks of the Initializer (statements and
\* terminators) and its globals as they were, the Initializer stays diverged,
\* and Initializer::finish adds neither the call of the entry procedure nor
\* the Exit terminator.
C29_StickyDivergence ==
  /\ \A i \in ItemIdx :
       (unit.items[i].kind = "global" /\ ~unit.items[i].pre.cur.ok) =>
         /\ unit.items[i].post.cfg.blocks = unit.items[i].pre.cfg.blocks
         /\ unit.items[i].post.globals = unit.items[i].pre.globals
         /\ ~unit.items[i].post.cur.ok
  /\ (unit.start.built /\ ~unit.start.pre.cur.ok) =>
         /\ unit.start.cfg.blocks = unit.start.pre.cfg.blocks
         /\ unit.start.globals = unit.start.pre.globals
         /\ \A i \in 1 .. Len(unit.start.cfg.blocks) :
              unit.start.cfg.blocks[i].term.k \notin {"Call", "Exit"}

\* a global item declared a global, the next one diverged, a third one was
\* built after it, and Initializer::finish was called for an entry procedure
C29_Witness ==
  /\ Len(unit.items) = 3
  /\ \A i \in ItemIdx : unit.items[i].kind = "global"
  /\ unit.items[1].post.globals # << >>
  /\ unit.items[2].pre.cur.ok /\ ~unit.items[2].post.cur.ok
  /\ ~unit.items[3].pre.cur.ok
  /\ unit.start.built /\ unit.start.main.has /\ ~unit.start.pre.cur.ok

(* ------------------------------------------------------------------ *)
(* Registration of generations (C30), checked under SpecGen            *)
(* ------------------------------------------------------------------ *)
\* the entry of generation g in the table of the next state has the dominator
\* and the rebindings it has now, and every resolution cached now
EntryKept(g) ==
  /\ g \in DOMAIN bm'.tr.gen_vars
  /\ bm'.tr.gen_vars[g].dominator = bm.tr.gen_vars[g].dominator
  /\ bm'.tr.gen_vars[g].value = bm.tr.gen_vars[g].value
  /\ \A v \in DOMAIN bm.tr.gen_vars[g].cache :
       /\ Has(bm'.tr.gen_vars[g].cache, v)
       /\ bm'.tr.gen_vars[g].cache[v] = bm.tr.gen_vars[g].cache[v]

\* a cached resolution of generation g is what resolving without the cache
\* gives: the rebinding of g, else the resolution cached in the dominator
Fresh(g) ==
  LET gm == bm.tr.gen_vars[g] IN
  \A v \in DOMAIN gm.cache :
    IF Has(gm.value, v) THEN gm.cache[v] = gm.value[v]
    ELSE g # ROOT =>
           /\ gm.dominator \in Registered
           /\ Has(bm.tr.gen_vars[gm.dominator].cache, v)
           /\ bm.tr.gen_vars[gm.dominator].cache[v] = gm.cache[v]

\* one Translator call as C30 constrains it
RegistrationStep ==
  /\ (last'.op = "add_gen" /\ last'.g \in Registered) => status' = "aborted" /\ bm'.panicked
  /\ (last'.op = "try_add_gen" /\ last'.g \in Registered) =>
        bm'.tr.gen_vars[last'.g] = bm.tr.gen_vars[last'.g]
  /\ status' # "aborted" => \A g \in Registered : EntryKept(g)

\* C30: add_gen for a generation that is registered already aborts the
\* lowering; try_add_gen for a registered generation leaves its dominator,
\* rebindings and cache as they are; so while lowering goes on the dominator
\* and the rebindings of a registered generation never change, a cached
\* resolution is never replaced, and every cached resolution is what
\* resolving without the cache gives.
C30_Registration ==
  /\ [](status # "aborted" => \A g \in Registered : Fresh(g))
  /\ [][RegistrationStep]_vars

\* try_add_gen was called for a registered generation that has a rebinding
\* and a cached resolution
C30_Witness ==
  /\ last.op = "try_add_gen"
  /\ status = "new"
  /\ \E g \in Registered \ {ROOT} :
       /\ last.g = g
       /\ bm.tr.gen_vars[g].value # EmptyMap
       /\ bm.tr.gen_vars[g].cache # EmptyMap

=============================================================================
